---- MODULE Spec2Model ----
(***************************************************************************)
(* Model of the chat bridge of levee-go.                                    *)
(*                                                                         *)
(* Spec      the streaming chat session (src/llm.go): ChatSession.Send /   *)
(*           Abort / Close over one bidirectional backend stream, called   *)
(*           by concurrent goroutines, the backend being the environment.  *)
(* SpecConn  the transport connector (src/llm.go): LLMClient.connect /     *)
(*           Close / Chat / NewChatSession called by concurrent goroutines.*)
(* SpecRelay the WebSocket relay session (src/client_compat.go).           *)
(*                                                                         *)
(* Each specification moves its own variables and leaves the others at     *)
(* their initial values.                                                   *)
(***************************************************************************)
EXTENDS Integers, Sequences, FiniteSets, TLC

\* ---------------------------------------------------------------- bounds
NumProcs == 2
MaxCalls == 3
MaxEvents == 3
NumConnProcs == 2
MaxConnCalls == 3
MaxStreamMsgs == 2
MaxFrames == 3
MaxRelayEvents == 2
MaxFairFrames == 2
MaxFairCalls == 2

Procs == 1..NumProcs

\* ------------------------------------------------------- message model
Nil == [kind |-> "nil"]

\* llmpb.ChatResponse_Chunk: Content is a text fragment (a sequence of
\* symbols, so that += is sequence concatenation), Index is not validated.
ChunkEvents ==
    { [kind |-> "chunk", Content |-> <<"a">>, Index |-> 0],
      [kind |-> "chunk", Content |-> <<"b">>, Index |-> 1] }

\* llmpb.CompletionResponse
CompletionEvents ==
    { [kind |-> "completion", FullContent |-> <<"z">>, StopReason |-> "end_turn",
       InputTokens |-> 3, OutputTokens |-> 5, CostUsd |-> 2, LatencyMs |-> 7] }

\* llmpb.ErrorResponse
ErrorEvents ==
    { [kind |-> "error", Code |-> "rate_limited", Message |-> "slow down", Retryable |-> TRUE] }

\* llmpb.AbortedResponse
AbortedEvents ==
    { [kind |-> "aborted", Reason |-> "user cancelled"] }

\* llmpb.SessionStarted; a tool call takes the same path through Send's switch
OtherEvents ==
    { [kind |-> "session_started"] }

BackendEvents ==
    ChunkEvents \cup CompletionEvents \cup ErrorEvents \cup AbortedEvents \cup OtherEvents

\* ChatResponse (src/llm.go:521); Go zero values for the unset fields.
ChatResponse(content, stop, inTok, outTok, cost, lat) ==
    [kind |-> "response", Content |-> content, Model |-> "", InputTokens |-> inTok,
     OutputTokens |-> outTok, CostUSD |-> cost, LatencyMs |-> lat, StopReason |-> stop]

\* error values: fmt.Errorf texts as <<format prefix, argument>>
NoErr == <<>>
ErrClosed == <<"session is closed">>
CallbackErr == <<"callback failed">>
TransportErr == "transport failure"
ErrSendFailed == <<"failed to send message: ", TransportErr>>
ErrRecvFailed == <<"stream receive error: ", TransportErr>>

Pending == [resp |-> Nil, err |-> <<"pending">>]

VARIABLES
    done,        \* ChatSession.done
    mu,          \* ChatSession.mu: 0 when free, else the goroutine holding it
    pc,          \* position of each caller goroutine
    op,          \* the method each goroutine last called
    cb,          \* Send's callback argument: "nil" or "fn"
    loc,         \* Send's locals: fullContent, completion
    cbLog,       \* chunks handed to the callback by the current Send
    result,      \* what the last call returned: (response, error)
    inbox,       \* events emitted by the backend, not yet received
    streamEnd,   \* "open", "eof" (backend closed the stream) or "err"
    evlog,       \* events received by the current Send, in order
    exit,        \* how the current Send left its receive loop
    cbFailedAt,  \* position in evlog of the chunk whose callback failed
    io,          \* whether the current call has called into the stream
    afterClose,  \* whether the current call was issued after a Close returned
    closeReturned,
    abortCtx,    \* for an Abort: whether a turn was in flight when it was called,
                 \* whether that turn's Send has returned since, and whether the
                 \* abort message went out during that turn
    calls,
    emitted,
    closeSends,  \* number of CloseSend calls made on the session's stream
    unread       \* events at the head of inbox that were already there, unread,
                 \* when the Send of an earlier turn returned

\* LLMClient and its callers
VARIABLES
    baseOK,      \* whether LLMClient.baseURL is a usable URL (fixed at construction)
    explicitCfg, \* whether WithGRPCAddress was given (fixed at construction)
    grpcAddr,    \* LLMClient.grpcAddr: "", "explicit" or "discovered"
    conn,        \* LLMClient.conn: 0 for nil, else the connection's number
    client,      \* LLMClient.client: 0 for nil, else the connection it wraps
    cmu,         \* LLMClient.mu: -1 when free, else the goroutine holding it
    cpc,         \* position of each goroutine calling into the client
    cop,         \* the method each goroutine is in
    cres,        \* error returned by the goroutine's connect() / call
    cframe,      \* what the current call has done so far (see NoFrame)
    created,     \* number of connections created by grpc.NewClient
    closedConns, \* connections on which conn.Close() has been called
    doubleClosed,\* whether conn.Close() was called twice on one connection
    lookups,     \* number of config lookup requests sent
    goodLookups, \* number of lookups that succeeded and reported available
    closeCalls,  \* number of LLMClient.Close calls made
    streamLog,   \* for every stream opened by NewChatSession: the messages sent on it
    handed,      \* streams whose ChatSession was returned to a caller
    requests,    \* SimpleChat requests issued so far
    ccalls

sessVars == <<done, mu, pc, op, cb, loc, cbLog, result, inbox, streamEnd,
              evlog, exit, cbFailedAt, io, afterClose, closeReturned, abortCtx, calls,
              emitted, closeSends, unread>>

connVars == <<baseOK, explicitCfg, grpcAddr, conn, client, cmu, cpc, cop, cres, cframe,
              created, closedConns, doubleClosed, lookups, goodLookups, closeCalls,
              streamLog, handed, requests, ccalls>>

\* wsSession, its two goroutines, its socket and its backend stream
VARIABLES
    rlPc,        \* read loop: "read", "start_conn", "send_lock", "writing",
                 \* "closing", "exited" or "panicked"
    rlPending,   \* the message the read loop is writing in s.send
    started,     \* wsSession.started
    rstream,     \* wsSession.stream: 0 for nil, else the number of the stream
    rOpened,     \* number of backend streams opened by the session
    rSent,       \* for every opened stream: the requests sent on it
    rInbox,      \* events the backend emitted on the current stream, unread
    rStreamEnd,  \* "open", "eof" or "err" for the current stream
    fwdPc,       \* forwarding goroutine: "none", "recv", "send_lock", "writing", "exited"
    fwdPending,  \* the message the forwarding goroutine is writing in s.send
    fwdLast,     \* whether the forwarding goroutine returns after that write
    fwdSpawned,  \* number of forwarding goroutines started
    sendMu,      \* wsSession.sendMu: "free", "rl" or "fwd"
    sockOut,     \* messages written to the socket, in order
    sockState,   \* "open" or "closed" (by the handler)
    frames,      \* number of inbound frames read
    hctx,        \* the frame being handled and the session as it was when read
    rlWritten,   \* messages the read loop has written for that frame
    rCalls,      \* backend calls made by the read loop (connect, open, send)
    rEmitted,
    rLog,        \* the events the backend emitted on the session's stream, in order
    rReleased    \* the streams whose send side the session has closed

\* one ChatStream call
VARIABLES
    csPc,        \* position of the goroutine inside ChatStream
    csReq,       \* ChatStream's req argument
    csWire,      \* requests sent on the stream the call opened, in order
    csStreams,   \* number of backend streams the call opened
    csSession,   \* the call's ChatSession: "none", "open" or "closed"
    csErr        \* the error ChatStream returned

\* the Stripe webhook handler
VARIABLES
    whSecret,    \* HandlerConfig.StripeWebhookSecret ("" when not configured)
    whPc,        \* position of the handler goroutine
    whReq,       \* the request being handled
    whStatus,    \* HTTP status written to the response (0: none yet)
    whForwarded, \* payloads passed to ForwardStripeWebhook for the current request
    whCalls

chatStreamVars == <<csPc, csReq, csWire, csStreams, csSession, csErr>>

hookVars == <<whSecret, whPc, whReq, whStatus, whForwarded, whCalls>>

relayVars == <<rlPc, rlPending, started, rstream, rOpened, rSent, rInbox, rStreamEnd,
               fwdPc, fwdPending, fwdLast, fwdSpawned, sendMu, sockOut, sockState,
               frames, hctx, rlWritten, rCalls, rEmitted, rLog, rReleased>>

extVars == <<connVars, relayVars, chatStreamVars, hookVars>>

vars == <<sessVars, connVars, relayVars, chatStreamVars, hookVars>>

ghostVars == <<evlog, exit, cbFailedAt, io, afterClose, closeReturned, abortCtx>>

NoAbortCtx == [duringTurn |-> FALSE, turnOver |-> FALSE, sentInTurn |-> FALSE]

InitLoc == [fullContent |-> <<>>, completion |-> Nil]

\* goroutines calling into the LLMClient; 0 is the relay session's read loop
ConnProcs == 1..NumConnProcs
Callers == 0..NumConnProcs

\* what one call into the client has done: looked -- sent a config lookup;
\* lookupBad -- its lookup failed or reported unavailable; dialed -- called
\* grpc.NewClient; made -- its dial produced the cached connection; sawConn --
\* found a cached connection; sent -- backend requests it issued; stream -- the
\* stream it opened (0 for none)
NoFrame == [looked |-> FALSE, lookupBad |-> FALSE, dialed |-> FALSE, made |-> FALSE,
            sawConn |-> FALSE, sent |-> 0, stream |-> 0]

\* the client and its callers at rest, right after NewLLMClient (src/llm.go:385-398)
ConnIdle ==
    /\ conn = 0
    /\ client = 0
    /\ cmu = -1
    /\ cpc = [p \in Callers |-> "idle"]
    /\ cop = [p \in Callers |-> "none"]
    /\ cres = [p \in Callers |-> NoErr]
    /\ cframe = [p \in Callers |-> NoFrame]
    /\ created = 0
    /\ closedConns = {}
    /\ doubleClosed = FALSE
    /\ lookups = 0
    /\ goodLookups = 0
    /\ closeCalls = 0
    /\ streamLog = <<>>
    /\ handed = {}
    /\ requests = 0
    /\ ccalls = 0

\* a client constructed with an explicit address (README: WithGRPCAddress)
ConnFixed ==
    /\ baseOK = TRUE
    /\ explicitCfg = TRUE
    /\ grpcAddr = "explicit"
    /\ ConnIdle

NoFrameCtx == [frame |-> [type |-> "none", ok |-> TRUE], started |-> FALSE, stream |-> 0,
               opened |-> 0, sent |-> 0, calls |-> 0, spawned |-> 0]

\* a relay session as built by HandleChatWebSocket, before run()
\* (src/client_compat.go:201-206)
RelayIdle ==
    /\ rlPc = "read"
    /\ rlPending = Nil
    /\ started = FALSE
    /\ rstream = 0
    /\ rOpened = 0
    /\ rSent = <<>>
    /\ rInbox = <<>>
    /\ rStreamEnd = "open"
    /\ fwdPc = "none"
    /\ fwdPending = Nil
    /\ fwdLast = FALSE
    /\ fwdSpawned = 0
    /\ sendMu = "free"
    /\ sockOut = <<>>
    /\ sockState = "open"
    /\ frames = 0
    /\ hctx = NoFrameCtx
    /\ rlWritten = <<>>
    /\ rCalls = 0
    /\ rEmitted = 0
    /\ rLog = <<>>
    /\ rReleased = {}

\* ChatRequest (src/llm.go:512-518)
ChatStreamRequest(sp, msgs) ==
    [Messages |-> msgs, SystemPrompt |-> sp, Model |-> "haiku", MaxTokens |-> 1024,
     Temperature |-> 0]

\* no ChatStream call has been made
ChatStreamIdle ==
    /\ csPc = "idle"
    /\ csReq = ChatStreamRequest("", <<>>)
    /\ csWire = <<>>
    /\ csStreams = 0
    /\ csSession = "none"
    /\ csErr = <<"pending">>

NoHookRequest == [method |-> "none", readable |-> TRUE, body |-> "", header |-> <<>>]

\* no webhook request has arrived; no webhook secret is configured
HookIdle ==
    /\ whSecret = ""
    /\ whPc = "idle"
    /\ whReq = NoHookRequest
    /\ whStatus = 0
    /\ whForwarded = <<>>
    /\ whCalls = 0

\* The state right after NewChatSession returned a session (src/llm.go:623).
SessionInit ==
    /\ closeSends = 0
    /\ unread = 0
    /\ done = FALSE
    /\ mu = 0
    /\ pc = [p \in Procs |-> "idle"]
    /\ op = [p \in Procs |-> "none"]
    /\ cb = [p \in Procs |-> "nil"]
    /\ loc = [p \in Procs |-> InitLoc]
    /\ cbLog = [p \in Procs |-> <<>>]
    /\ result = [p \in Procs |-> Pending]
    /\ inbox = <<>>
    /\ streamEnd = "open"
    /\ evlog = [p \in Procs |-> <<>>]
    /\ exit = [p \in Procs |-> "none"]
    /\ cbFailedAt = [p \in Procs |-> 0]
    /\ io = [p \in Procs |-> FALSE]
    /\ afterClose = [p \in Procs |-> FALSE]
    /\ closeReturned = FALSE
    /\ abortCtx = [p \in Procs |-> NoAbortCtx]
    /\ calls = 0
    /\ emitted = 0

Init ==
    /\ SessionInit
    /\ ConnFixed
    /\ RelayIdle
    /\ ChatStreamIdle
    /\ HookIdle


\* ------------------------------------------- Send's receive loop, per event
StreamChunk(ev) == [Content |-> ev.Content, Index |-> ev.Index]

Continue(l, called) == [loc |-> l, status |-> "continue", err |-> NoErr, exit |-> "none", called |-> called]
Return(l, called, err, why) == [loc |-> l, status |-> "return", err |-> err, exit |-> why, called |-> called]

\* case *llmpb.ChatResponse_Chunk (src/llm.go:666-672)
OnChunkSwallow(l, ev, hasCb, cbFails) ==
    Continue([l EXCEPT !.fullContent = @ \o ev.Content],
             IF hasCb THEN <<StreamChunk(ev)>> ELSE <<>>)

OnChunkPrepend(l, ev, hasCb, cbFails) ==
    LET l2 == [l EXCEPT !.fullContent = ev.Content \o @]
    IN  IF hasCb
        THEN IF cbFails THEN Return(l2, <<StreamChunk(ev)>>, CallbackErr, "callback")
                        ELSE Continue(l2, <<StreamChunk(ev)>>)
        ELSE Continue(l2, <<>>)

OnChunkChecksIndex(l, ev, hasCb, cbFails) ==
    LET l2 == [l EXCEPT !.fullContent = @ \o ev.Content]
    IN  IF hasCb /\ ev.Index = Len(l.fullContent)
        THEN IF cbFails THEN Return(l2, <<StreamChunk(ev)>>, CallbackErr, "callback")
                        ELSE Continue(l2, <<StreamChunk(ev)>>)
        ELSE Continue(l2, <<>>)

OnChunk(l, ev, hasCb, cbFails) ==
    LET l2 == [l EXCEPT !.fullContent = @ \o ev.Content]
    IN  IF hasCb
        THEN IF cbFails THEN Return(l2, <<StreamChunk(ev)>>, CallbackErr, "callback")
                        ELSE Continue(l2, <<StreamChunk(ev)>>)
        ELSE Continue(l2, <<>>)

\* case *llmpb.ChatResponse_Completion (src/llm.go:673-675)
OnCompletion(l, ev) == Continue([l EXCEPT !.completion = ev], <<>>)

\* case *llmpb.ChatResponse_Error (src/llm.go:676-677)
OnErrorCodeOnly(l, ev) == Return(l, <<>>, <<"LLM error: ", ev.Code>>, "error")

OnError(l, ev) == Return(l, <<>>, <<"LLM error: ", ev.Message>>, "error")

\* case *llmpb.ChatResponse_Aborted (src/llm.go:678-679)
OnAbortedIgnored(l, ev) == Continue(l, <<>>)

OnAborted(l, ev) == Return(l, <<>>, <<"generation aborted: ", ev.Reason>>, "aborted")

\* the switch of the loop body (src/llm.go:663-680)
Dispatch(l, ev, hasCb, cbFails) ==
    CASE ev.kind = "chunk" -> OnChunk(l, ev, hasCb, cbFails)
      [] ev.kind = "completion" -> OnCompletion(l, ev)
      [] ev.kind = "error" -> OnError(l, ev)
      [] ev.kind = "aborted" -> OnAborted(l, ev)
      [] OTHER -> Continue(l, <<>>)

\* if completion != nil { break } (src/llm.go:682-684)
BreaksAfterNever(o) == FALSE

BreaksAfter(o) == o.status = "continue" /\ o.loc.completion # Nil

\* one iteration of the loop on a received event (src/llm.go:663-684)
LoopBody(l, ev, hasCb, cbFails) ==
    LET o == Dispatch(l, ev, hasCb, cbFails)
    IN  IF BreaksAfter(o) THEN [o EXCEPT !.status = "break", !.exit = "completion"] ELSE o

\* the response built after the loop (src/llm.go:687-698)
SendResultAccumulated(l) == ChatResponse(l.fullContent, "", 0, 0, 0, 0)

SendResult(l) ==
    IF l.completion = Nil
    THEN ChatResponse(l.fullContent, "", 0, 0, 0, 0)
    ELSE ChatResponse(l.completion.FullContent, l.completion.StopReason,
                      l.completion.InputTokens, l.completion.OutputTokens,
                      l.completion.CostUsd, l.completion.LatencyMs)

\* ------------------------------------------------------------- callers
\* a call enters with a fresh frame
Reset(p, o, callback) ==
    /\ pc[p] = "idle"
    /\ calls < MaxCalls
    /\ calls' = calls + 1
    /\ op' = [op EXCEPT ![p] = o]
    /\ cb' = [cb EXCEPT ![p] = callback]
    /\ afterClose' = [afterClose EXCEPT ![p] = closeReturned]
    /\ UNCHANGED <<loc, cbLog, result, evlog, exit, cbFailedAt, io>>

\* a call returns to its caller: its frame is gone
Leave(p) ==
    /\ pc' = [pc EXCEPT ![p] = "idle"]
    /\ op' = [op EXCEPT ![p] = "none"]
    /\ cb' = [cb EXCEPT ![p] = "nil"]
    /\ loc' = [loc EXCEPT ![p] = InitLoc]
    /\ cbLog' = [cbLog EXCEPT ![p] = <<>>]
    /\ result' = [result EXCEPT ![p] = Pending]
    /\ evlog' = [evlog EXCEPT ![p] = <<>>]
    /\ exit' = [exit EXCEPT ![p] = "none"]
    /\ cbFailedAt' = [cbFailedAt EXCEPT ![p] = 0]
    /\ io' = [io EXCEPT ![p] = FALSE]
    /\ afterClose' = [afterClose EXCEPT ![p] = FALSE]

TurnInFlight == \E q \in Procs : pc[q] = "send_recv"

\* a goroutine calls session.Send(ctx, content, callback)
CallSend(p) ==
    \E callback \in {"nil", "fn"} :
        /\ Reset(p, "Send", callback)
        /\ pc' = [pc EXCEPT ![p] = "send_lock"]
        /\ abortCtx' = [abortCtx EXCEPT ![p] = NoAbortCtx]
        /\ UNCHANGED <<done, mu, inbox, streamEnd, closeReturned, emitted>>
        /\ UNCHANGED extVars
        /\ UNCHANGED <<closeSends, unread>>

\* a goroutine calls session.Abort(reason)
CallAbort(p) ==
    /\ Reset(p, "Abort", "nil")
    /\ pc' = [pc EXCEPT ![p] = "abort_lock"]
    /\ abortCtx' = [abortCtx EXCEPT ![p] = [duringTurn |-> TurnInFlight, turnOver |-> FALSE, sentInTurn |-> FALSE]]
    /\ UNCHANGED <<done, mu, inbox, streamEnd, closeReturned, emitted>>
    /\ UNCHANGED extVars
    /\ UNCHANGED <<closeSends, unread>>

\* a goroutine calls session.Close()
CallClose(p) ==
    /\ Reset(p, "Close", "nil")
    /\ pc' = [pc EXCEPT ![p] = "close_lock"]
    /\ abortCtx' = [abortCtx EXCEPT ![p] = NoAbortCtx]
    /\ UNCHANGED <<done, mu, inbox, streamEnd, closeReturned, emitted>>
    /\ UNCHANGED extVars
    /\ UNCHANGED <<closeSends, unread>>


\* ------------------------------------------------------ ChatSession.Send
\* s.mu.Lock() (src/llm.go:631)
SendLockNoMutex(p) ==
    /\ pc[p] = "send_lock"
    /\ mu' = p
    /\ pc' = [pc EXCEPT ![p] = "send_check"]
    /\ UNCHANGED <<done, op, cb, loc, cbLog, result, inbox, streamEnd, calls, emitted>>
    /\ UNCHANGED ghostVars
    /\ UNCHANGED extVars
    /\ UNCHANGED <<closeSends, unread>>

SendLock(p) ==
    /\ pc[p] = "send_lock"
    /\ mu = 0
    /\ mu' = p
    /\ pc' = [pc EXCEPT ![p] = "send_check"]
    /\ UNCHANGED <<done, op, cb, loc, cbLog, result, inbox, streamEnd, calls, emitted>>
    /\ UNCHANGED ghostVars
    /\ UNCHANGED extVars
    /\ UNCHANGED <<closeSends, unread>>

\* if s.done { return nil, "session is closed" } (src/llm.go:634-636)
SendCheckDoneSkipped(p) ==
    /\ pc[p] = "send_check"
    /\ pc' = [pc EXCEPT ![p] = "send_msg"]
    /\ UNCHANGED <<done, mu, op, cb, loc, cbLog, result, inbox, streamEnd, calls, emitted>>
    /\ UNCHANGED ghostVars
    /\ UNCHANGED extVars
    /\ UNCHANGED <<closeSends, unread>>

SendCheckDone(p) ==
    /\ pc[p] = "send_check"
    /\ IF done
       THEN /\ result' = [result EXCEPT ![p] = [resp |-> Nil, err |-> ErrClosed]]
            /\ exit' = [exit EXCEPT ![p] = "closed"]
            /\ pc' = [pc EXCEPT ![p] = "send_unlock"]
       ELSE /\ pc' = [pc EXCEPT ![p] = "send_msg"]
            /\ UNCHANGED <<result, exit>>
    /\ UNCHANGED <<done, mu, op, cb, loc, cbLog, inbox, streamEnd, calls, emitted>>
    /\ UNCHANGED <<evlog, cbFailedAt, io, afterClose, closeReturned, abortCtx>>
    /\ UNCHANGED extVars
    /\ UNCHANGED <<closeSends, unread>>

\* s.stream.Send(user message) and its error check (src/llm.go:639-648)
SendMsg(p) ==
    /\ pc[p] = "send_msg"
    /\ io' = [io EXCEPT ![p] = TRUE]
    /\ \E ok \in BOOLEAN :
        /\ IF ok
           THEN /\ pc' = [pc EXCEPT ![p] = "send_recv"]
                /\ UNCHANGED <<result, exit>>
           ELSE /\ result' = [result EXCEPT ![p] = [resp |-> Nil, err |-> ErrSendFailed]]
                /\ exit' = [exit EXCEPT ![p] = "send_error"]
                /\ pc' = [pc EXCEPT ![p] = "send_unlock"]
    /\ UNCHANGED <<done, mu, op, cb, loc, cbLog, inbox, streamEnd, calls, emitted>>
    /\ UNCHANGED <<evlog, cbFailedAt, afterClose, closeReturned, abortCtx>>
    /\ UNCHANGED extVars
    /\ UNCHANGED <<closeSends, unread>>

\* one iteration of the receive loop that receives an event (src/llm.go:655-685)
SendRecvEvent(p) ==
    /\ pc[p] = "send_recv"
    /\ inbox # <<>>
    /\ LET ev == Head(inbox)
           hasCb == cb[p] = "fn"
       IN  \E cbFails \in (IF ev.kind = "chunk" /\ hasCb THEN BOOLEAN ELSE {FALSE}) :
            LET o == LoopBody(loc[p], ev, hasCb, cbFails)
            IN  /\ inbox' = Tail(inbox)
                /\ io' = [io EXCEPT ![p] = TRUE]
                /\ evlog' = [evlog EXCEPT ![p] = Append(@, ev)]
                /\ cbFailedAt' = [cbFailedAt EXCEPT ![p] =
                                    IF cbFails /\ @ = 0 THEN Len(evlog[p]) + 1 ELSE @]
                /\ loc' = [loc EXCEPT ![p] = o.loc]
                /\ cbLog' = [cbLog EXCEPT ![p] = @ \o o.called]
                /\ exit' = [exit EXCEPT ![p] = o.exit]
                /\ CASE o.status = "continue" ->
                            /\ UNCHANGED <<pc, result>>
                     [] o.status = "break" ->
                            /\ pc' = [pc EXCEPT ![p] = "send_unlock"]
                            /\ result' = [result EXCEPT ![p] =
                                            [resp |-> SendResult(o.loc), err |-> NoErr]]
                     [] o.status = "return" ->
                            /\ pc' = [pc EXCEPT ![p] = "send_unlock"]
                            /\ result' = [result EXCEPT ![p] = [resp |-> Nil, err |-> o.err]]
    /\ UNCHANGED <<done, mu, op, cb, streamEnd, calls, emitted>>
    /\ UNCHANGED <<afterClose, closeReturned, abortCtx>>
    /\ UNCHANGED extVars
    /\ unread' = IF unread > 0 THEN unread - 1 ELSE 0
    /\ UNCHANGED closeSends

\* Recv reports io.EOF: break, then build the response (src/llm.go:656-658, 687-698)
SendRecvEOF(p) ==
    /\ pc[p] = "send_recv"
    /\ inbox = <<>>
    /\ streamEnd = "eof"
    /\ io' = [io EXCEPT ![p] = TRUE]
    /\ exit' = [exit EXCEPT ![p] = "eof"]
    /\ result' = [result EXCEPT ![p] = [resp |-> SendResult(loc[p]), err |-> NoErr]]
    /\ pc' = [pc EXCEPT ![p] = "send_unlock"]
    /\ UNCHANGED <<done, mu, op, cb, loc, cbLog, inbox, streamEnd, calls, emitted>>
    /\ UNCHANGED <<evlog, cbFailedAt, afterClose, closeReturned, abortCtx>>
    /\ UNCHANGED extVars
    /\ UNCHANGED <<closeSends, unread>>

\* Recv reports another error (src/llm.go:659-661)
SendRecvErr(p) ==
    /\ pc[p] = "send_recv"
    /\ inbox = <<>>
    /\ streamEnd = "err"
    /\ io' = [io EXCEPT ![p] = TRUE]
    /\ exit' = [exit EXCEPT ![p] = "recv_error"]
    /\ result' = [result EXCEPT ![p] = [resp |-> Nil, err |-> ErrRecvFailed]]
    /\ pc' = [pc EXCEPT ![p] = "send_unlock"]
    /\ UNCHANGED <<done, mu, op, cb, loc, cbLog, inbox, streamEnd, calls, emitted>>
    /\ UNCHANGED <<evlog, cbFailedAt, afterClose, closeReturned, abortCtx>>
    /\ UNCHANGED extVars
    /\ UNCHANGED <<closeSends, unread>>

\* defer s.mu.Unlock() and return (src/llm.go:632)
SendReturn(p) ==
    /\ pc[p] = "send_unlock"
    /\ mu' = 0
    /\ Leave(p)
    /\ abortCtx' = [q \in Procs |->
                        IF q = p THEN NoAbortCtx
                        ELSE [abortCtx[q] EXCEPT !.turnOver = abortCtx[q].duringTurn]]
    /\ UNCHANGED <<done, inbox, streamEnd, calls, emitted, closeReturned>>
    /\ UNCHANGED extVars
    /\ unread' = IF exit[p] \in {"closed", "send_error"} THEN unread ELSE Len(inbox)
    /\ UNCHANGED closeSends

\* ----------------------------------------------------- ChatSession.Abort
\* s.mu.Lock() (src/llm.go:703)
AbortLock(p) ==
    /\ pc[p] = "abort_lock"
    /\ mu = 0
    /\ mu' = p
    /\ pc' = [pc EXCEPT ![p] = "abort_msg"]
    /\ UNCHANGED <<done, op, cb, loc, cbLog, result, inbox, streamEnd, calls, emitted>>
    /\ UNCHANGED ghostVars
    /\ UNCHANGED extVars
    /\ UNCHANGED <<closeSends, unread>>

\* return s.stream.Send(abort request) (src/llm.go:706-712)
AbortMsg(p) ==
    /\ pc[p] = "abort_msg"
    /\ io' = [io EXCEPT ![p] = TRUE]
    /\ abortCtx' = [abortCtx EXCEPT ![p].sentInTurn =
                                    abortCtx[p].duringTurn /\ ~abortCtx[p].turnOver]
    /\ \E ok \in BOOLEAN :
        /\ result' = [result EXCEPT ![p] =
                        [resp |-> Nil, err |-> IF ok THEN NoErr ELSE <<TransportErr>>]]
    /\ pc' = [pc EXCEPT ![p] = "abort_unlock"]
    /\ UNCHANGED <<done, mu, op, cb, loc, cbLog, inbox, streamEnd, calls, emitted>>
    /\ UNCHANGED <<evlog, exit, cbFailedAt, afterClose, closeReturned>>
    /\ UNCHANGED extVars
    /\ UNCHANGED <<closeSends, unread>>

\* defer s.mu.Unlock() and return (src/llm.go:704)
AbortReturn(p) ==
    /\ pc[p] = "abort_unlock"
    /\ mu' = 0
    /\ Leave(p)
    /\ abortCtx' = [abortCtx EXCEPT ![p] = NoAbortCtx]
    /\ UNCHANGED <<done, inbox, streamEnd, calls, emitted, closeReturned>>
    /\ UNCHANGED extVars
    /\ UNCHANGED <<closeSends, unread>>

\* ----------------------------------------------------- ChatSession.Close
\* s.mu.Lock() (src/llm.go:717)
CloseLock(p) ==
    /\ pc[p] = "close_lock"
    /\ mu = 0
    /\ mu' = p
    /\ pc' = [pc EXCEPT ![p] = "close_body"]
    /\ UNCHANGED <<done, op, cb, loc, cbLog, result, inbox, streamEnd, calls, emitted>>
    /\ UNCHANGED ghostVars
    /\ UNCHANGED extVars
    /\ UNCHANGED <<closeSends, unread>>

\* s.done = true; return s.stream.CloseSend() (src/llm.go:720-721)
CloseBodyToggles(p) ==
    /\ pc[p] = "close_body"
    /\ done' = ~done
    /\ io' = [io EXCEPT ![p] = TRUE]
    /\ \E ok \in BOOLEAN :
        /\ result' = [result EXCEPT ![p] =
                        [resp |-> Nil, err |-> IF ok THEN NoErr ELSE <<TransportErr>>]]
    /\ pc' = [pc EXCEPT ![p] = "close_unlock"]
    /\ UNCHANGED <<mu, op, cb, loc, cbLog, inbox, streamEnd, calls, emitted>>
    /\ UNCHANGED <<evlog, exit, cbFailedAt, afterClose, closeReturned, abortCtx>>
    /\ UNCHANGED extVars
    /\ closeSends' = closeSends + 1
    /\ UNCHANGED unread

CloseBody(p) ==
    /\ pc[p] = "close_body"
    /\ done' = TRUE
    /\ io' = [io EXCEPT ![p] = TRUE]
    /\ \E ok \in BOOLEAN :
        /\ result' = [result EXCEPT ![p] =
                        [resp |-> Nil, err |-> IF ok THEN NoErr ELSE <<TransportErr>>]]
    /\ pc' = [pc EXCEPT ![p] = "close_unlock"]
    /\ UNCHANGED <<mu, op, cb, loc, cbLog, inbox, streamEnd, calls, emitted>>
    /\ UNCHANGED <<evlog, exit, cbFailedAt, afterClose, closeReturned, abortCtx>>
    /\ UNCHANGED extVars
    /\ closeSends' = closeSends + 1
    /\ UNCHANGED unread

\* defer s.mu.Unlock() and return (src/llm.go:718)
CloseReturn(p) ==
    /\ pc[p] = "close_unlock"
    /\ mu' = 0
    /\ Leave(p)
    /\ abortCtx' = [abortCtx EXCEPT ![p] = NoAbortCtx]
    /\ closeReturned' = TRUE
    /\ UNCHANGED <<done, inbox, streamEnd, calls, emitted>>
    /\ UNCHANGED extVars
    /\ UNCHANGED <<closeSends, unread>>

\* ------------------------------------------------------------- backend
\* the backend writes an event on the stream
BackendEmit ==
    /\ streamEnd = "open"
    /\ emitted < MaxEvents
    /\ \E ev \in BackendEvents : inbox' = Append(inbox, ev)
    /\ emitted' = emitted + 1
    /\ UNCHANGED <<done, mu, pc, op, cb, loc, cbLog, result, streamEnd, calls>>
    /\ UNCHANGED ghostVars
    /\ UNCHANGED extVars
    /\ UNCHANGED <<closeSends, unread>>

\* the backend closes the stream: Recv reports io.EOF once drained
BackendEnd ==
    /\ streamEnd = "open"
    /\ streamEnd' = "eof"
    /\ UNCHANGED <<done, mu, pc, op, cb, loc, cbLog, result, inbox, calls, emitted>>
    /\ UNCHANGED ghostVars
    /\ UNCHANGED extVars
    /\ UNCHANGED <<closeSends, unread>>

\* the stream breaks: Recv reports a transport error once drained
BackendFail ==
    /\ streamEnd = "open"
    /\ streamEnd' = "err"
    /\ UNCHANGED <<done, mu, pc, op, cb, loc, cbLog, result, inbox, calls, emitted>>
    /\ UNCHANGED ghostVars
    /\ UNCHANGED extVars
    /\ UNCHANGED <<closeSends, unread>>

Next ==
    \/ \E p \in Procs : CallSend(p)
    \/ \E p \in Procs : CallAbort(p)
    \/ \E p \in Procs : CallClose(p)
    \/ \E p \in Procs : SendLock(p)
    \/ \E p \in Procs : SendCheckDone(p)
    \/ \E p \in Procs : SendMsg(p)
    \/ \E p \in Procs : SendRecvEvent(p)
    \/ \E p \in Procs : SendRecvEOF(p)
    \/ \E p \in Procs : SendRecvErr(p)
    \/ \E p \in Procs : SendReturn(p)
    \/ \E p \in Procs : AbortLock(p)
    \/ \E p \in Procs : AbortMsg(p)
    \/ \E p \in Procs : AbortReturn(p)
    \/ \E p \in Procs : CloseLock(p)
    \/ \E p \in Procs : CloseBody(p)
    \/ \E p \in Procs : CloseReturn(p)
    \/ BackendEmit
    \/ BackendEnd
    \/ BackendFail

Spec == Init /\ [][Next]_vars

\* the session with at most MaxFairCalls calls, where a goroutine inside Send
\* keeps running: it receives what the stream holds and returns once it has
\* left its loop. Nothing obliges the backend to emit, end or break the stream.
NextFair == Next /\ calls' <= MaxFairCalls

SpecFair ==
    /\ Init
    /\ [][NextFair]_vars
    /\ \A p \in Procs : WF_vars(SendRecvEvent(p)) /\ WF_vars(SendReturn(p))

TypeOK ==
    /\ done \in BOOLEAN
    /\ mu \in 0..NumProcs
    /\ calls \in 0..MaxCalls
    /\ emitted \in 0..MaxEvents
    /\ Len(inbox) <= MaxEvents


\* ------------------------------------------------------------ LLMClient
nonConnVars == <<sessVars, relayVars, chatStreamVars, hookVars>>

ErrDiscover(why) == <<"failed to auto-discover gRPC address: ", why>>
ErrUnavailable == <<"LLM service is not available for this organization">>
ErrDial == <<"failed to connect to LLM server at ", TransportErr>>
ErrChat == <<"chat request failed: ", TransportErr>>
ErrOpenStream == <<"failed to start chat session: ", TransportErr>>
ErrStart == <<"failed to send start request: ", TransportErr>>

\* what the config endpoint can answer (src/llm.go:422-437, 459)
LookupOutcomes == {"transport error", "status not 200", "undecodable body", "unavailable", "available"}

\* a goroutine enters a method of the client that starts with c.connect()
EnterConnect(p, o) ==
    /\ cpc[p] = "idle"
    /\ ccalls < MaxConnCalls
    /\ ccalls' = ccalls + 1
    /\ cop' = [cop EXCEPT ![p] = o]
    /\ cpc' = [cpc EXCEPT ![p] = "conn_lock"]
    /\ cres' = [cres EXCEPT ![p] = NoErr]
    /\ cframe' = [cframe EXCEPT ![p] = NoFrame]
    /\ UNCHANGED <<baseOK, explicitCfg, grpcAddr, conn, client, cmu, created,
                   closedConns, doubleClosed, lookups, goodLookups, closeCalls, streamLog, handed, requests>>
    /\ UNCHANGED nonConnVars

\* a goroutine calls c.connect() on its own
CallConnect(p) == EnterConnect(p, "connect")

\* a goroutine calls c.Chat(ctx, req) (src/llm.go:532-533)
CallChat(p) == EnterConnect(p, "Chat")

\* a goroutine calls c.NewChatSession(ctx, req) (src/llm.go:587-588)
CallNewChatSession(p) == EnterConnect(p, "NewChatSession")

\* a goroutine calls c.Close() (src/llm.go:492)
CallClientClose(p) ==
    /\ cpc[p] = "idle"
    /\ ccalls < MaxConnCalls
    /\ ccalls' = ccalls + 1
    /\ closeCalls' = closeCalls + 1
    /\ cop' = [cop EXCEPT ![p] = "Close"]
    /\ cpc' = [cpc EXCEPT ![p] = "cclose_lock"]
    /\ cres' = [cres EXCEPT ![p] = NoErr]
    /\ cframe' = [cframe EXCEPT ![p] = NoFrame]
    /\ UNCHANGED <<baseOK, explicitCfg, grpcAddr, conn, client, cmu, created,
                   closedConns, doubleClosed, lookups, goodLookups, streamLog, handed, requests>>
    /\ UNCHANGED nonConnVars

\* c.mu.Lock() in connect (src/llm.go:443)
ConnLockNoMutex(p) ==
    /\ cpc[p] = "conn_lock"
    /\ cmu' = p
    /\ cpc' = [cpc EXCEPT ![p] = "conn_check"]
    /\ UNCHANGED <<baseOK, explicitCfg, grpcAddr, conn, client, cop, cres, cframe, created,
                   closedConns, doubleClosed, lookups, goodLookups, closeCalls, streamLog, handed, requests, ccalls>>
    /\ UNCHANGED nonConnVars

ConnLock(p) ==
    /\ cpc[p] = "conn_lock"
    /\ cmu = -1
    /\ cmu' = p
    /\ cpc' = [cpc EXCEPT ![p] = "conn_check"]
    /\ UNCHANGED <<baseOK, explicitCfg, grpcAddr, conn, client, cop, cres, cframe, created,
                   closedConns, doubleClosed, lookups, goodLookups, closeCalls, streamLog, handed, requests, ccalls>>
    /\ UNCHANGED nonConnVars

\* if c.conn != nil { return nil }; grpcAddr := c.grpcAddr (src/llm.go:446-452)
ConnCheckAlwaysDials(p) ==
    /\ cpc[p] = "conn_check"
    /\ IF FALSE
       THEN /\ cres' = [cres EXCEPT ![p] = NoErr]
            /\ cframe' = [cframe EXCEPT ![p].sawConn = TRUE]
            /\ cpc' = [cpc EXCEPT ![p] = "conn_unlock"]
       ELSE /\ cpc' = [cpc EXCEPT ![p] = IF grpcAddr = "" THEN "conn_fetch" ELSE "conn_dial"]
            /\ UNCHANGED <<cres, cframe>>
    /\ UNCHANGED <<baseOK, explicitCfg, grpcAddr, conn, client, cmu, cop, created,
                   closedConns, doubleClosed, lookups, goodLookups, closeCalls, streamLog, handed, requests, ccalls>>
    /\ UNCHANGED nonConnVars

ConnCheck(p) ==
    /\ cpc[p] = "conn_check"
    /\ IF conn # 0
       THEN /\ cres' = [cres EXCEPT ![p] = NoErr]
            /\ cframe' = [cframe EXCEPT ![p].sawConn = TRUE]
            /\ cpc' = [cpc EXCEPT ![p] = "conn_unlock"]
       ELSE /\ cpc' = [cpc EXCEPT ![p] = IF grpcAddr = "" THEN "conn_fetch" ELSE "conn_dial"]
            /\ UNCHANGED <<cres, cframe>>
    /\ UNCHANGED <<baseOK, explicitCfg, grpcAddr, conn, client, cmu, cop, created,
                   closedConns, doubleClosed, lookups, goodLookups, closeCalls, streamLog, handed, requests, ccalls>>
    /\ UNCHANGED nonConnVars

\* auto-discovery: fetchConfig, the availability check, and caching the
\* resolved address (src/llm.go:409-439, 452-471).  With an empty or malformed
\* baseURL fetchConfig fails before any request is sent (410-418).
ConnFetchNoCache(p) ==
    /\ cpc[p] = "conn_fetch"
    /\ IF ~baseOK
       THEN /\ cres' = [cres EXCEPT ![p] = ErrDiscover("no request")]
            /\ cframe' = [cframe EXCEPT ![p].lookupBad = TRUE]
            /\ cpc' = [cpc EXCEPT ![p] = "conn_unlock"]
            /\ UNCHANGED <<lookups, goodLookups, grpcAddr>>
       ELSE /\ lookups' = lookups + 1
            /\ \E out \in LookupOutcomes :
                CASE out = "available" ->
                        /\ goodLookups' = goodLookups + 1
                        /\ grpcAddr' = grpcAddr
                        /\ cframe' = [cframe EXCEPT ![p].looked = TRUE]
                        /\ cpc' = [cpc EXCEPT ![p] = "conn_dial"]
                        /\ UNCHANGED cres
                  [] out = "unavailable" ->
                        /\ cres' = [cres EXCEPT ![p] = ErrUnavailable]
                        /\ cframe' = [cframe EXCEPT ![p].looked = TRUE, ![p].lookupBad = TRUE]
                        /\ cpc' = [cpc EXCEPT ![p] = "conn_unlock"]
                        /\ UNCHANGED <<goodLookups, grpcAddr>>
                  [] OTHER ->
                        /\ cres' = [cres EXCEPT ![p] = ErrDiscover(out)]
                        /\ cframe' = [cframe EXCEPT ![p].looked = TRUE, ![p].lookupBad = TRUE]
                        /\ cpc' = [cpc EXCEPT ![p] = "conn_unlock"]
                        /\ UNCHANGED <<goodLookups, grpcAddr>>
    /\ UNCHANGED <<baseOK, explicitCfg, conn, client, cmu, cop, created,
                   closedConns, doubleClosed, closeCalls, streamLog, handed, requests, ccalls>>
    /\ UNCHANGED nonConnVars

ConnFetchIgnoresAvailable(p) ==
    /\ cpc[p] = "conn_fetch"
    /\ IF ~baseOK
       THEN /\ cres' = [cres EXCEPT ![p] = ErrDiscover("no request")]
            /\ cframe' = [cframe EXCEPT ![p].lookupBad = TRUE]
            /\ cpc' = [cpc EXCEPT ![p] = "conn_unlock"]
            /\ UNCHANGED <<lookups, goodLookups, grpcAddr>>
       ELSE /\ lookups' = lookups + 1
            /\ \E out \in LookupOutcomes :
                CASE out = "available" ->
                        /\ goodLookups' = goodLookups + 1
                        /\ grpcAddr' = "discovered"
                        /\ cframe' = [cframe EXCEPT ![p].looked = TRUE]
                        /\ cpc' = [cpc EXCEPT ![p] = "conn_dial"]
                        /\ UNCHANGED cres
                  [] out = "unavailable" ->
                        /\ cres' = [cres EXCEPT ![p] = ErrUnavailable]
                        /\ cframe' = [cframe EXCEPT ![p].looked = TRUE, ![p].lookupBad = TRUE]
                        /\ cpc' = [cpc EXCEPT ![p] = "conn_dial"]
                        /\ UNCHANGED <<goodLookups, grpcAddr>>
                  [] OTHER ->
                        /\ cres' = [cres EXCEPT ![p] = ErrDiscover(out)]
                        /\ cframe' = [cframe EXCEPT ![p].looked = TRUE, ![p].lookupBad = TRUE]
                        /\ cpc' = [cpc EXCEPT ![p] = "conn_unlock"]
                        /\ UNCHANGED <<goodLookups, grpcAddr>>
    /\ UNCHANGED <<baseOK, explicitCfg, conn, client, cmu, cop, created,
                   closedConns, doubleClosed, closeCalls, streamLog, handed, requests, ccalls>>
    /\ UNCHANGED nonConnVars

ConnFetch(p) ==
    /\ cpc[p] = "conn_fetch"
    /\ IF ~baseOK
       THEN /\ cres' = [cres EXCEPT ![p] = ErrDiscover("no request")]
            /\ cframe' = [cframe EXCEPT ![p].lookupBad = TRUE]
            /\ cpc' = [cpc EXCEPT ![p] = "conn_unlock"]
            /\ UNCHANGED <<lookups, goodLookups, grpcAddr>>
       ELSE /\ lookups' = lookups + 1
            /\ \E out \in LookupOutcomes :
                CASE out = "available" ->
                        /\ goodLookups' = goodLookups + 1
                        /\ grpcAddr' = "discovered"
                        /\ cframe' = [cframe EXCEPT ![p].looked = TRUE]
                        /\ cpc' = [cpc EXCEPT ![p] = "conn_dial"]
                        /\ UNCHANGED cres
                  [] out = "unavailable" ->
                        /\ cres' = [cres EXCEPT ![p] = ErrUnavailable]
                        /\ cframe' = [cframe EXCEPT ![p].looked = TRUE, ![p].lookupBad = TRUE]
                        /\ cpc' = [cpc EXCEPT ![p] = "conn_unlock"]
                        /\ UNCHANGED <<goodLookups, grpcAddr>>
                  [] OTHER ->
                        /\ cres' = [cres EXCEPT ![p] = ErrDiscover(out)]
                        /\ cframe' = [cframe EXCEPT ![p].looked = TRUE, ![p].lookupBad = TRUE]
                        /\ cpc' = [cpc EXCEPT ![p] = "conn_unlock"]
                        /\ UNCHANGED <<goodLookups, grpcAddr>>
    /\ UNCHANGED <<baseOK, explicitCfg, conn, client, cmu, cop, created,
                   closedConns, doubleClosed, closeCalls, streamLog, handed, requests, ccalls>>
    /\ UNCHANGED nonConnVars

\* grpc.NewClient and caching the connection (src/llm.go:473-488)
ConnDial(p) ==
    /\ cpc[p] = "conn_dial"
    /\ \E ok \in BOOLEAN :
        IF ok
        THEN /\ created' = created + 1
             /\ conn' = created + 1
             /\ client' = created + 1
             /\ cres' = [cres EXCEPT ![p] = NoErr]
             /\ cframe' = [cframe EXCEPT ![p].dialed = TRUE, ![p].made = TRUE]
        ELSE /\ cres' = [cres EXCEPT ![p] = ErrDial]
             /\ cframe' = [cframe EXCEPT ![p].dialed = TRUE]
             /\ UNCHANGED <<created, conn, client>>
    /\ cpc' = [cpc EXCEPT ![p] = "conn_unlock"]
    /\ UNCHANGED <<baseOK, explicitCfg, grpcAddr, cmu, cop, closedConns, doubleClosed,
                   lookups, goodLookups, closeCalls, streamLog, handed, requests, ccalls>>
    /\ UNCHANGED nonConnVars

\* defer c.mu.Unlock(): connect returns to its caller (src/llm.go:444)
ConnUnlock(p) ==
    /\ cpc[p] = "conn_unlock"
    /\ cmu' = -1
    /\ cpc' = [cpc EXCEPT ![p] = "conn_done"]
    /\ UNCHANGED <<baseOK, explicitCfg, grpcAddr, conn, client, cop, cres, cframe, created,
                   closedConns, doubleClosed, lookups, goodLookups, closeCalls, streamLog, handed, requests, ccalls>>
    /\ UNCHANGED nonConnVars

\* a bare connect() call is over
ConnectReturn(p) ==
    /\ cpc[p] = "conn_done"
    /\ cop[p] = "connect"
    /\ cpc' = [cpc EXCEPT ![p] = "ret"]
    /\ UNCHANGED <<baseOK, explicitCfg, grpcAddr, conn, client, cmu, cop, cres, cframe,
                   created, closedConns, doubleClosed, lookups, goodLookups, closeCalls, streamLog, handed, requests, ccalls>>
    /\ UNCHANGED nonConnVars

\* ------------------------------------------------------- LLMClient.Chat
\* the read of c.client after connect() returned is not under c.mu: when a
\* concurrent Close has reset it the goroutine sees nil (and panics on the
\* call) or, the read racing with the write, still the old client
ClientSeen == IF client # 0 THEN {"client"} ELSE {"nil", "stale"}

\* the rest of Chat after c.connect(): at most one SimpleChat request, its
\* error wrapped and returned (src/llm.go:533-567)
ChatRequestRetries(p) ==
    /\ cpc[p] = "conn_done"
    /\ cop[p] = "Chat"
    /\ IF cres[p] # NoErr
       THEN /\ cpc' = [cpc EXCEPT ![p] = "ret"]
            /\ UNCHANGED <<cres, cframe, requests>>
       ELSE \E seen \in ClientSeen :
              IF seen = "nil"
              THEN /\ cpc' = [cpc EXCEPT ![p] = "panicked"]
                   /\ UNCHANGED <<cres, cframe, requests>>
              ELSE /\ \E ok \in BOOLEAN :
                        /\ requests' = requests + (IF ok THEN 1 ELSE 2)
                        /\ cframe' = [cframe EXCEPT ![p].sent = @ + (IF ok THEN 1 ELSE 2)]
                        /\ cres' = [cres EXCEPT ![p] = NoErr]
                   /\ cpc' = [cpc EXCEPT ![p] = "ret"]
    /\ UNCHANGED <<baseOK, explicitCfg, grpcAddr, conn, client, cmu, cop, created,
                   closedConns, doubleClosed, lookups, goodLookups, closeCalls, streamLog, handed, ccalls>>
    /\ UNCHANGED nonConnVars

ChatRequest(p) ==
    /\ cpc[p] = "conn_done"
    /\ cop[p] = "Chat"
    /\ IF cres[p] # NoErr
       THEN /\ cpc' = [cpc EXCEPT ![p] = "ret"]
            /\ UNCHANGED <<cres, cframe, requests>>
       ELSE \E seen \in ClientSeen :
              IF seen = "nil"
              THEN /\ cpc' = [cpc EXCEPT ![p] = "panicked"]
                   /\ UNCHANGED <<cres, cframe, requests>>
              ELSE /\ requests' = requests + 1
                   /\ cframe' = [cframe EXCEPT ![p].sent = @ + 1]
                   /\ \E ok \in BOOLEAN :
                        cres' = [cres EXCEPT ![p] = IF ok THEN NoErr ELSE ErrChat]
                   /\ cpc' = [cpc EXCEPT ![p] = "ret"]
    /\ UNCHANGED <<baseOK, explicitCfg, grpcAddr, conn, client, cmu, cop, created,
                   closedConns, doubleClosed, lookups, goodLookups, closeCalls, streamLog, handed, ccalls>>
    /\ UNCHANGED nonConnVars

\* --------------------------------------------- LLMClient.NewChatSession
\* stream, err := c.client.Chat(ctx) and its error check (src/llm.go:588-595)
NcsOpen(p) ==
    /\ cpc[p] = "conn_done"
    /\ cop[p] = "NewChatSession"
    /\ IF cres[p] # NoErr
       THEN /\ cpc' = [cpc EXCEPT ![p] = "ret"]
            /\ UNCHANGED <<cres, cframe, streamLog>>
       ELSE \E seen \in ClientSeen :
              IF seen = "nil"
              THEN /\ cpc' = [cpc EXCEPT ![p] = "panicked"]
                   /\ UNCHANGED <<cres, cframe, streamLog>>
              ELSE \E ok \in BOOLEAN :
                     IF ok
                     THEN /\ streamLog' = Append(streamLog, <<>>)
                          /\ cframe' = [cframe EXCEPT ![p].stream = Len(streamLog) + 1]
                          /\ cpc' = [cpc EXCEPT ![p] = "ncs_start"]
                          /\ UNCHANGED cres
                     ELSE /\ cres' = [cres EXCEPT ![p] = ErrOpenStream]
                          /\ cpc' = [cpc EXCEPT ![p] = "ret"]
                          /\ UNCHANGED <<cframe, streamLog>>
    /\ UNCHANGED <<baseOK, explicitCfg, grpcAddr, conn, client, cmu, cop, created,
                   closedConns, doubleClosed, lookups, goodLookups, closeCalls, handed, requests, ccalls>>
    /\ UNCHANGED nonConnVars

\* stream.Send(start request), then return the session or the error
\* (src/llm.go:597-626)
NcsStartIgnoresError(p) ==
    /\ cpc[p] = "ncs_start"
    /\ \E ok \in BOOLEAN :
        IF ok
        THEN /\ streamLog' = [streamLog EXCEPT ![cframe[p].stream] = Append(@, "start")]
             /\ handed' = handed \cup {cframe[p].stream}
             /\ cres' = [cres EXCEPT ![p] = NoErr]
        ELSE /\ cres' = [cres EXCEPT ![p] = NoErr]
             /\ handed' = handed \cup {cframe[p].stream}
             /\ UNCHANGED streamLog
    /\ cpc' = [cpc EXCEPT ![p] = "ret"]
    /\ UNCHANGED <<baseOK, explicitCfg, grpcAddr, conn, client, cmu, cop, cframe,
                   created, closedConns, doubleClosed, lookups, goodLookups, closeCalls, requests, ccalls>>
    /\ UNCHANGED nonConnVars

NcsStart(p) ==
    /\ cpc[p] = "ncs_start"
    /\ \E ok \in BOOLEAN :
        IF ok
        THEN /\ streamLog' = [streamLog EXCEPT ![cframe[p].stream] = Append(@, "start")]
             /\ handed' = handed \cup {cframe[p].stream}
             /\ cres' = [cres EXCEPT ![p] = NoErr]
        ELSE /\ cres' = [cres EXCEPT ![p] = ErrStart]
             /\ UNCHANGED <<streamLog, handed>>
    /\ cpc' = [cpc EXCEPT ![p] = "ret"]
    /\ UNCHANGED <<baseOK, explicitCfg, grpcAddr, conn, client, cmu, cop, cframe,
                   created, closedConns, doubleClosed, lookups, goodLookups, closeCalls, requests, ccalls>>
    /\ UNCHANGED nonConnVars

\* the holder of a session returned by NewChatSession calls its Send, which
\* transmits a user message on the session's stream (src/llm.go:639-645)
SessionTransmit ==
    \E st \in handed :
        /\ Len(streamLog[st]) < MaxStreamMsgs
        /\ streamLog' = [streamLog EXCEPT ![st] = Append(@, "message")]
        /\ UNCHANGED <<baseOK, explicitCfg, grpcAddr, conn, client, cmu, cpc, cop, cres,
                   cframe, created, closedConns, doubleClosed, lookups, goodLookups, closeCalls, handed, requests, ccalls>>
        /\ UNCHANGED nonConnVars

\* ------------------------------------------------------ LLMClient.Close
\* c.mu.Lock() in Close (src/llm.go:493)
ClientCloseLock(p) ==
    /\ cpc[p] = "cclose_lock"
    /\ cmu = -1
    /\ cmu' = p
    /\ cpc' = [cpc EXCEPT ![p] = "cclose_body"]
    /\ UNCHANGED <<baseOK, explicitCfg, grpcAddr, conn, client, cop, cres, cframe, created,
                   closedConns, doubleClosed, lookups, goodLookups, closeCalls, streamLog, handed, requests, ccalls>>
    /\ UNCHANGED nonConnVars

\* if c.conn != nil { err := c.conn.Close(); c.conn = nil; c.client = nil;
\* return err }; return nil (src/llm.go:496-502)
ClientCloseBodyKeepsConn(p) ==
    /\ cpc[p] = "cclose_body"
    /\ IF conn # 0
       THEN /\ closedConns' = closedConns \cup {conn}
            /\ doubleClosed' = (doubleClosed \/ conn \in closedConns)
            /\ conn' = conn
            /\ client' = client
            /\ cframe' = [cframe EXCEPT ![p].sawConn = TRUE]
            /\ \E ok \in BOOLEAN :
                cres' = [cres EXCEPT ![p] = IF ok THEN NoErr ELSE <<TransportErr>>]
       ELSE /\ cres' = [cres EXCEPT ![p] = NoErr]
            /\ UNCHANGED <<closedConns, doubleClosed, conn, client, cframe>>
    /\ cpc' = [cpc EXCEPT ![p] = "cclose_unlock"]
    /\ UNCHANGED <<baseOK, explicitCfg, grpcAddr, cmu, cop, created,
                   lookups, goodLookups, closeCalls, streamLog, handed, requests, ccalls>>
    /\ UNCHANGED nonConnVars

ClientCloseBody(p) ==
    /\ cpc[p] = "cclose_body"
    /\ IF conn # 0
       THEN /\ closedConns' = closedConns \cup {conn}
            /\ doubleClosed' = (doubleClosed \/ conn \in closedConns)
            /\ conn' = 0
            /\ client' = 0
            /\ cframe' = [cframe EXCEPT ![p].sawConn = TRUE]
            /\ \E ok \in BOOLEAN :
                cres' = [cres EXCEPT ![p] = IF ok THEN NoErr ELSE <<TransportErr>>]
       ELSE /\ cres' = [cres EXCEPT ![p] = NoErr]
            /\ UNCHANGED <<closedConns, doubleClosed, conn, client, cframe>>
    /\ cpc' = [cpc EXCEPT ![p] = "cclose_unlock"]
    /\ UNCHANGED <<baseOK, explicitCfg, grpcAddr, cmu, cop, created,
                   lookups, goodLookups, closeCalls, streamLog, handed, requests, ccalls>>
    /\ UNCHANGED nonConnVars

\* defer c.mu.Unlock(): Close returns (src/llm.go:494)
ClientCloseUnlock(p) ==
    /\ cpc[p] = "cclose_unlock"
    /\ cmu' = -1
    /\ cpc' = [cpc EXCEPT ![p] = "ret"]
    /\ UNCHANGED <<baseOK, explicitCfg, grpcAddr, conn, client, cop, cres, cframe, created,
                   closedConns, doubleClosed, lookups, goodLookups, closeCalls, streamLog, handed, requests, ccalls>>
    /\ UNCHANGED nonConnVars

\* the call has returned to its caller: its frame is gone
CallReturn(p) ==
    /\ cpc[p] = "ret"
    /\ cpc' = [cpc EXCEPT ![p] = "idle"]
    /\ cop' = [cop EXCEPT ![p] = "none"]
    /\ cres' = [cres EXCEPT ![p] = NoErr]
    /\ cframe' = [cframe EXCEPT ![p] = NoFrame]
    /\ UNCHANGED <<baseOK, explicitCfg, grpcAddr, conn, client, cmu, created, closedConns,
                   doubleClosed, lookups, goodLookups, closeCalls, streamLog, handed, requests, ccalls>>
    /\ UNCHANGED nonConnVars

\* a client right after NewLLMClient, with or without WithGRPCAddress, with a
\* usable or an unusable baseURL (src/llm.go:363-367, 385-398)
ConnInit ==
    /\ \E e \in BOOLEAN, b \in BOOLEAN :
        /\ explicitCfg = e
        /\ baseOK = b
        /\ grpcAddr = IF e THEN "explicit" ELSE ""
    /\ ConnIdle

InitConn ==
    /\ SessionInit
    /\ ConnInit
    /\ RelayIdle
    /\ ChatStreamIdle
    /\ HookIdle

NextConn ==
    \/ \E p \in ConnProcs : CallConnect(p)
    \/ \E p \in ConnProcs : CallChat(p)
    \/ \E p \in ConnProcs : CallNewChatSession(p)
    \/ \E p \in ConnProcs : CallClientClose(p)
    \/ \E p \in ConnProcs : ConnLock(p)
    \/ \E p \in ConnProcs : ConnCheck(p)
    \/ \E p \in ConnProcs : ConnFetch(p)
    \/ \E p \in ConnProcs : ConnDial(p)
    \/ \E p \in ConnProcs : ConnUnlock(p)
    \/ \E p \in ConnProcs : ConnectReturn(p)
    \/ \E p \in ConnProcs : ChatRequest(p)
    \/ \E p \in ConnProcs : NcsOpen(p)
    \/ \E p \in ConnProcs : NcsStart(p)
    \/ \E p \in ConnProcs : ClientCloseLock(p)
    \/ \E p \in ConnProcs : ClientCloseBody(p)
    \/ \E p \in ConnProcs : ClientCloseUnlock(p)
    \/ \E p \in ConnProcs : CallReturn(p)
    \/ SessionTransmit

SpecConn == InitConn /\ [][NextConn]_vars

\* ============================================================ the relay
\* src/client_compat.go: one wsSession per socket; run() is the read loop,
\* readGRPCResponses the forwarding goroutine started by handleStart.

\* llmpb.ToolCall
ToolCallEvents ==
    { [kind |-> "tool_call", ToolCallId |-> "t1", Name |-> "lookup", ArgumentsJson |-> "{}"] }

\* one event of every kind readGRPCResponses distinguishes
RelayEvents ==
    { [kind |-> "chunk", Content |-> <<"a">>, Index |-> 0] } \cup CompletionEvents
    \cup ErrorEvents \cup AbortedEvents \cup OtherEvents \cup ToolCallEvents

\* inbound frames: the type field of the envelope and whether the payload
\* decodes; "bad_json" is a frame whose envelope does not decode
Frames ==
    { [type |-> t, ok |-> k] : t \in {"start", "message", "abort", "tool_result"}, k \in BOOLEAN }
    \cup { [type |-> t, ok |-> TRUE] : t \in {"unknown", "bad_json"} }

\* WSErrorResponse in a WSMessage of type "error" (src/client_compat.go:467-473)
WsError(code, message, retryable) ==
    [type |-> "error", code |-> code, message |-> message, retryable |-> retryable]

\* the socket message readGRPCResponses builds for a backend event
\* (src/client_compat.go:396-438)
Forward(ev) ==
    CASE ev.kind = "session_started" -> [type |-> "started"]
      [] ev.kind = "chunk" -> [type |-> "chunk", content |-> ev.Content, index |-> ev.Index]
      [] ev.kind = "tool_call" ->
            [type |-> "tool_call", tool_call_id |-> ev.ToolCallId, name |-> ev.Name,
             arguments_json |-> ev.ArgumentsJson]
      [] ev.kind = "completion" ->
            [type |-> "completion", full_content |-> ev.FullContent,
             stop_reason |-> ev.StopReason, input_tokens |-> ev.InputTokens,
             output_tokens |-> ev.OutputTokens, cost_usd |-> ev.CostUsd,
             latency_ms |-> ev.LatencyMs]
      [] ev.kind = "error" -> WsError(ev.Code, ev.Message, ev.Retryable)
      [] ev.kind = "aborted" -> WsError("aborted", ev.Reason, FALSE)

\* s.sendError from the read loop: the message is built, s.send is entered
ReplyError(code, message, retryable) ==
    /\ rlPending' = WsError(code, message, retryable)
    /\ rlPc' = "send_lock"

\* stream.Send succeeds as long as the stream has neither ended nor broken
StreamUp == rStreamEnd = "open"

\* s.conn.WriteMessage: its error is dropped (src/client_compat.go:463)
SocketWrite(msg) ==
    sockOut' = IF sockState = "open" THEN Append(sockOut, msg) ELSE sockOut

\* handleStart up to the call of s.llm.connect() (src/client_compat.go:255-270)
HandleStartAgainAllowed(f) ==
    /\ IF FALSE
       THEN /\ ReplyError("already_started", "Session already started", FALSE)
            /\ UNCHANGED <<rCalls, cpc, cop, cres, cframe>>
       ELSE IF ~f.ok
       THEN /\ ReplyError("invalid_data", "Invalid start request", FALSE)
            /\ UNCHANGED <<rCalls, cpc, cop, cres, cframe>>
       ELSE /\ rlPc' = "start_conn"
            /\ rCalls' = rCalls + 1
            /\ cpc' = [cpc EXCEPT ![0] = "conn_lock"]
            /\ cop' = [cop EXCEPT ![0] = "handleStart"]
            /\ cres' = [cres EXCEPT ![0] = NoErr]
            /\ cframe' = [cframe EXCEPT ![0] = NoFrame]
            /\ UNCHANGED rlPending
    /\ UNCHANGED <<started, rstream, rOpened, rSent, rInbox, rStreamEnd, fwdPc, fwdPending,
                   fwdLast, fwdSpawned, sendMu, sockOut, sockState, rEmitted,
                   rLog, rReleased>>
    /\ UNCHANGED <<baseOK, explicitCfg, grpcAddr, conn, client, cmu, created, closedConns,
                   doubleClosed, lookups, goodLookups, closeCalls, streamLog, handed,
                   requests, ccalls>>

HandleStart(f) ==
    /\ IF started
       THEN /\ ReplyError("already_started", "Session already started", FALSE)
            /\ UNCHANGED <<rCalls, cpc, cop, cres, cframe>>
       ELSE IF ~f.ok
       THEN /\ ReplyError("invalid_data", "Invalid start request", FALSE)
            /\ UNCHANGED <<rCalls, cpc, cop, cres, cframe>>
       ELSE /\ rlPc' = "start_conn"
            /\ rCalls' = rCalls + 1
            /\ cpc' = [cpc EXCEPT ![0] = "conn_lock"]
            /\ cop' = [cop EXCEPT ![0] = "handleStart"]
            /\ cres' = [cres EXCEPT ![0] = NoErr]
            /\ cframe' = [cframe EXCEPT ![0] = NoFrame]
            /\ UNCHANGED rlPending
    /\ UNCHANGED <<started, rstream, rOpened, rSent, rInbox, rStreamEnd, fwdPc, fwdPending,
                   fwdLast, fwdSpawned, sendMu, sockOut, sockState, rEmitted,
                   rLog, rReleased>>
    /\ UNCHANGED <<baseOK, explicitCfg, grpcAddr, conn, client, cmu, created, closedConns,
                   doubleClosed, lookups, goodLookups, closeCalls, streamLog, handed,
                   requests, ccalls>>

\* handleMessage (src/client_compat.go:315-337)
HandleMessageUnguarded(f) ==
    /\ IF rstream = 0
       THEN /\ ReplyError("not_started", "Session not started", FALSE)
            /\ UNCHANGED <<rCalls, rSent>>
       ELSE IF ~f.ok
       THEN /\ ReplyError("invalid_data", "Invalid message", FALSE)
            /\ UNCHANGED <<rCalls, rSent>>
       ELSE /\ rCalls' = rCalls + 1
            /\ IF StreamUp
                THEN /\ rSent' = [rSent EXCEPT ![rstream] = Append(@, [kind |-> "message"])]
                     /\ UNCHANGED <<rlPc, rlPending>>
                ELSE /\ ReplyError("send_failed", TransportErr, TRUE)
                     /\ UNCHANGED rSent
    /\ UNCHANGED <<started, rstream, rOpened, rInbox, rStreamEnd, fwdPc, fwdPending, fwdLast,
                   fwdSpawned, sendMu, sockOut, sockState, rEmitted,
                   rLog, rReleased>>
    /\ UNCHANGED connVars

HandleMessage(f) ==
    /\ IF ~started \/ rstream = 0
       THEN /\ ReplyError("not_started", "Session not started", FALSE)
            /\ UNCHANGED <<rCalls, rSent>>
       ELSE IF ~f.ok
       THEN /\ ReplyError("invalid_data", "Invalid message", FALSE)
            /\ UNCHANGED <<rCalls, rSent>>
       ELSE /\ rCalls' = rCalls + 1
            /\ IF StreamUp
                THEN /\ rSent' = [rSent EXCEPT ![rstream] = Append(@, [kind |-> "message"])]
                     /\ UNCHANGED <<rlPc, rlPending>>
                ELSE /\ ReplyError("send_failed", TransportErr, TRUE)
                     /\ UNCHANGED rSent
    /\ UNCHANGED <<started, rstream, rOpened, rInbox, rStreamEnd, fwdPc, fwdPending, fwdLast,
                   fwdSpawned, sendMu, sockOut, sockState, rEmitted,
                   rLog, rReleased>>
    /\ UNCHANGED connVars

\* handleToolResult (src/client_compat.go:358-382)
HandleToolResult(f) ==
    /\ IF ~started \/ rstream = 0
       THEN /\ ReplyError("not_started", "Session not started", FALSE)
            /\ UNCHANGED <<rCalls, rSent>>
       ELSE IF ~f.ok
       THEN /\ ReplyError("invalid_data", "Invalid tool result", FALSE)
            /\ UNCHANGED <<rCalls, rSent>>
       ELSE /\ rCalls' = rCalls + 1
            /\ IF StreamUp
                THEN /\ rSent' = [rSent EXCEPT ![rstream] = Append(@, [kind |-> "tool_result"])]
                     /\ UNCHANGED <<rlPc, rlPending>>
                ELSE /\ ReplyError("send_failed", TransportErr, TRUE)
                     /\ UNCHANGED rSent
    /\ UNCHANGED <<started, rstream, rOpened, rInbox, rStreamEnd, fwdPc, fwdPending, fwdLast,
                   fwdSpawned, sendMu, sockOut, sockState, rEmitted,
                   rLog, rReleased>>
    /\ UNCHANGED connVars

\* handleAbort: silent when not started; the payload's decoding error and the
\* error of stream.Send are dropped (src/client_compat.go:340-355)
HandleAbortUnguarded(f) ==
    /\ IF rstream = 0
       THEN UNCHANGED <<rCalls, rSent>>
       ELSE /\ rCalls' = rCalls + 1
            /\ rSent' = IF StreamUp
                         THEN [rSent EXCEPT ![rstream] =
                                 Append(@, [kind |-> "abort",
                                            reason |-> IF f.ok THEN "stop" ELSE ""])]
                         ELSE rSent
    /\ UNCHANGED <<rlPc, rlPending, started, rstream, rOpened, rInbox, rStreamEnd, fwdPc,
                   fwdPending, fwdLast, fwdSpawned, sendMu, sockOut, sockState, rEmitted,
                   rLog, rReleased>>
    /\ UNCHANGED connVars

HandleAbort(f) ==
    /\ IF ~started \/ rstream = 0
       THEN UNCHANGED <<rCalls, rSent>>
       ELSE /\ rCalls' = rCalls + 1
            /\ rSent' = IF StreamUp
                         THEN [rSent EXCEPT ![rstream] =
                                 Append(@, [kind |-> "abort",
                                            reason |-> IF f.ok THEN "stop" ELSE ""])]
                         ELSE rSent
    /\ UNCHANGED <<rlPc, rlPending, started, rstream, rOpened, rInbox, rStreamEnd, fwdPc,
                   fwdPending, fwdLast, fwdSpawned, sendMu, sockOut, sockState, rEmitted,
                   rLog, rReleased>>
    /\ UNCHANGED connVars

\* the JSON envelope does not decode, or its type is none of the four
\* (src/client_compat.go:233-237, 248-250)
HandleOtherUnchecked(f) ==
    /\ IF FALSE
       THEN ReplyError("invalid_json", "Invalid JSON message", FALSE)
       ELSE ReplyError("unknown_type", "Unknown message type", FALSE)
    /\ UNCHANGED <<started, rstream, rOpened, rSent, rInbox, rStreamEnd, fwdPc, fwdPending,
                   fwdLast, fwdSpawned, sendMu, sockOut, sockState, rCalls, rEmitted,
                   rLog, rReleased>>
    /\ UNCHANGED connVars

HandleOther(f) ==
    /\ IF f.type = "bad_json"
       THEN ReplyError("invalid_json", "Invalid JSON message", FALSE)
       ELSE ReplyError("unknown_type", "Unknown message type", FALSE)
    /\ UNCHANGED <<started, rstream, rOpened, rSent, rInbox, rStreamEnd, fwdPc, fwdPending,
                   fwdLast, fwdSpawned, sendMu, sockOut, sockState, rCalls, rEmitted,
                   rLog, rReleased>>
    /\ UNCHANGED connVars

\* the switch of run() (src/client_compat.go:239-250)
HandleFrame(f) ==
    CASE f.type = "start" -> HandleStart(f)
      [] f.type = "message" -> HandleMessage(f)
      [] f.type = "abort" -> HandleAbort(f)
      [] f.type = "tool_result" -> HandleToolResult(f)
      [] OTHER -> HandleOther(f)

\* the session as the frame being read finds it
FrameCtx(f) ==
    [frame |-> f, started |-> started, stream |-> rstream, opened |-> rOpened,
     sent |-> IF rstream = 0 THEN 0 ELSE Len(rSent[rstream]),
     calls |-> rCalls, spawned |-> fwdSpawned]

\* one turn of run(): s.conn.ReadMessage() returns a frame and its handler
\* runs up to its first blocking call (src/client_compat.go:223-251)
RLRead ==
    /\ rlPc = "read"
    /\ sockState = "open"
    /\ frames < MaxFrames
    /\ \E f \in Frames :
        /\ frames' = frames + 1
        /\ hctx' = FrameCtx(f)
        /\ rlWritten' = <<>>
        /\ HandleFrame(f)
    /\ UNCHANGED <<sessVars, chatStreamVars, hookVars>>

\* handleStart after s.llm.connect() returned: the error check, opening the
\* stream, s.stream = stream, sending the start request, s.started = true
\* and go s.readGRPCResponses() (src/client_compat.go:267-311)
RLStartStreamSpawnsEarly ==
    /\ rlPc = "start_conn"
    /\ cpc[0] = "conn_done"
    /\ cpc' = [cpc EXCEPT ![0] = "idle"]
    /\ cop' = [cop EXCEPT ![0] = "none"]
    /\ cres' = [cres EXCEPT ![0] = NoErr]
    /\ cframe' = [cframe EXCEPT ![0] = NoFrame]
    /\ IF cres[0] # NoErr
       THEN /\ ReplyError("connection_failed", cres[0], TRUE)
            /\ UNCHANGED <<rCalls, rstream, rOpened, rSent, rInbox, rStreamEnd, started,
                           fwdPc, fwdSpawned>>
       ELSE \E seen \in ClientSeen :
              IF seen = "nil"
              THEN /\ rlPc' = "panicked"
                   /\ UNCHANGED <<rlPending, rCalls, rstream, rOpened, rSent, rInbox,
                                  rStreamEnd, started, fwdPc, fwdSpawned>>
              ELSE \E out \in {"stream_failed", "start_failed", "ok"} :
                     CASE out = "stream_failed" ->
                            /\ ReplyError("stream_failed", TransportErr, TRUE)
                            /\ rCalls' = rCalls + 1
                            /\ UNCHANGED <<rstream, rOpened, rSent, rInbox, rStreamEnd,
                                           started, fwdPc, fwdSpawned>>
                       [] out = "start_failed" ->
                            /\ rOpened' = rOpened + 1
                            /\ rstream' = rOpened + 1
                            /\ rSent' = Append(rSent, <<>>)
                            /\ rInbox' = <<>>
                            /\ rStreamEnd' = "err"
                            /\ rCalls' = rCalls + 2
                            /\ ReplyError("start_failed", TransportErr, TRUE)
                            /\ fwdSpawned' = fwdSpawned + 1
                            /\ fwdPc' = "recv"
                            /\ UNCHANGED started
                       [] out = "ok" ->
                            /\ rOpened' = rOpened + 1
                            /\ rstream' = rOpened + 1
                            /\ rSent' = Append(rSent, <<[kind |-> "start"]>>)
                            /\ rInbox' = <<>>
                            /\ rStreamEnd' = "open"
                            /\ rCalls' = rCalls + 2
                            /\ started' = TRUE
                            /\ fwdSpawned' = fwdSpawned + 1
                            /\ fwdPc' = "recv"
                            /\ rlPc' = "read"
                            /\ UNCHANGED rlPending
    /\ UNCHANGED <<fwdPending, fwdLast, sendMu, sockOut, sockState, frames, hctx, rlWritten,
                   rEmitted,
                   rLog, rReleased>>
    /\ UNCHANGED <<baseOK, explicitCfg, grpcAddr, conn, client, cmu, created, closedConns,
                   doubleClosed, lookups, goodLookups, closeCalls, streamLog, handed,
                   requests, ccalls>>
    /\ UNCHANGED <<sessVars, chatStreamVars, hookVars>>

RLStartStreamMarksStarted ==
    /\ rlPc = "start_conn"
    /\ cpc[0] = "conn_done"
    /\ cpc' = [cpc EXCEPT ![0] = "idle"]
    /\ cop' = [cop EXCEPT ![0] = "none"]
    /\ cres' = [cres EXCEPT ![0] = NoErr]
    /\ cframe' = [cframe EXCEPT ![0] = NoFrame]
    /\ IF cres[0] # NoErr
       THEN /\ ReplyError("connection_failed", cres[0], TRUE)
            /\ UNCHANGED <<rCalls, rstream, rOpened, rSent, rInbox, rStreamEnd, started,
                           fwdPc, fwdSpawned>>
       ELSE \E seen \in ClientSeen :
              IF seen = "nil"
              THEN /\ rlPc' = "panicked"
                   /\ UNCHANGED <<rlPending, rCalls, rstream, rOpened, rSent, rInbox,
                                  rStreamEnd, started, fwdPc, fwdSpawned>>
              ELSE \E out \in {"stream_failed", "start_failed", "ok"} :
                     CASE out = "stream_failed" ->
                            /\ ReplyError("stream_failed", TransportErr, TRUE)
                            /\ rCalls' = rCalls + 1
                            /\ UNCHANGED <<rstream, rOpened, rSent, rInbox, rStreamEnd,
                                           started, fwdPc, fwdSpawned>>
                       [] out = "start_failed" ->
                            /\ rOpened' = rOpened + 1
                            /\ rstream' = rOpened + 1
                            /\ rSent' = Append(rSent, <<>>)
                            /\ rInbox' = <<>>
                            /\ rStreamEnd' = "err"
                            /\ rCalls' = rCalls + 2
                            /\ ReplyError("start_failed", TransportErr, TRUE)
                            /\ started' = TRUE
                            /\ UNCHANGED <<fwdPc, fwdSpawned>>
                       [] out = "ok" ->
                            /\ rOpened' = rOpened + 1
                            /\ rstream' = rOpened + 1
                            /\ rSent' = Append(rSent, <<[kind |-> "start"]>>)
                            /\ rInbox' = <<>>
                            /\ rStreamEnd' = "open"
                            /\ rCalls' = rCalls + 2
                            /\ started' = TRUE
                            /\ fwdSpawned' = fwdSpawned + 1
                            /\ fwdPc' = "recv"
                            /\ rlPc' = "read"
                            /\ UNCHANGED rlPending
    /\ UNCHANGED <<fwdPending, fwdLast, sendMu, sockOut, sockState, frames, hctx, rlWritten,
                   rEmitted,
                   rLog, rReleased>>
    /\ UNCHANGED <<baseOK, explicitCfg, grpcAddr, conn, client, cmu, created, closedConns,
                   doubleClosed, lookups, goodLookups, closeCalls, streamLog, handed,
                   requests, ccalls>>
    /\ UNCHANGED <<sessVars, chatStreamVars, hookVars>>

RLStartStream ==
    /\ rlPc = "start_conn"
    /\ cpc[0] = "conn_done"
    /\ cpc' = [cpc EXCEPT ![0] = "idle"]
    /\ cop' = [cop EXCEPT ![0] = "none"]
    /\ cres' = [cres EXCEPT ![0] = NoErr]
    /\ cframe' = [cframe EXCEPT ![0] = NoFrame]
    /\ IF cres[0] # NoErr
       THEN /\ ReplyError("connection_failed", cres[0], TRUE)
            /\ UNCHANGED <<rCalls, rstream, rOpened, rSent, rInbox, rStreamEnd, started,
                           fwdPc, fwdSpawned>>
       ELSE \E seen \in ClientSeen :
              IF seen = "nil"
              THEN /\ rlPc' = "panicked"
                   /\ UNCHANGED <<rlPending, rCalls, rstream, rOpened, rSent, rInbox,
                                  rStreamEnd, started, fwdPc, fwdSpawned>>
              ELSE \E out \in {"stream_failed", "start_failed", "ok"} :
                     CASE out = "stream_failed" ->
                            /\ ReplyError("stream_failed", TransportErr, TRUE)
                            /\ rCalls' = rCalls + 1
                            /\ UNCHANGED <<rstream, rOpened, rSent, rInbox, rStreamEnd,
                                           started, fwdPc, fwdSpawned>>
                       [] out = "start_failed" ->
                            /\ rOpened' = rOpened + 1
                            /\ rstream' = rOpened + 1
                            /\ rSent' = Append(rSent, <<>>)
                            /\ rInbox' = <<>>
                            /\ rStreamEnd' = "err"
                            /\ rCalls' = rCalls + 2
                            /\ ReplyError("start_failed", TransportErr, TRUE)
                            /\ UNCHANGED <<started, fwdPc, fwdSpawned>>
                       [] out = "ok" ->
                            /\ rOpened' = rOpened + 1
                            /\ rstream' = rOpened + 1
                            /\ rSent' = Append(rSent, <<[kind |-> "start"]>>)
                            /\ rInbox' = <<>>
                            /\ rStreamEnd' = "open"
                            /\ rCalls' = rCalls + 2
                            /\ started' = TRUE
                            /\ fwdSpawned' = fwdSpawned + 1
                            /\ fwdPc' = "recv"
                            /\ rlPc' = "read"
                            /\ UNCHANGED rlPending
    /\ UNCHANGED <<fwdPending, fwdLast, sendMu, sockOut, sockState, frames, hctx, rlWritten,
                   rEmitted,
                   rLog, rReleased>>
    /\ UNCHANGED <<baseOK, explicitCfg, grpcAddr, conn, client, cmu, created, closedConns,
                   doubleClosed, lookups, goodLookups, closeCalls, streamLog, handed,
                   requests, ccalls>>
    /\ UNCHANGED <<sessVars, chatStreamVars, hookVars>>

\* s.sendMu.Lock() in s.send, called by the read loop (src/client_compat.go:445)
RLSendLock ==
    /\ rlPc = "send_lock"
    /\ sendMu = "free"
    /\ sendMu' = "rl"
    /\ rlPc' = "writing"
    /\ UNCHANGED <<rlPending, started, rstream, rOpened, rSent, rInbox, rStreamEnd, fwdPc,
                   fwdPending, fwdLast, fwdSpawned, sockOut, sockState, frames, hctx,
                   rlWritten, rCalls, rEmitted,
                   rLog, rReleased>>
    /\ UNCHANGED connVars
    /\ UNCHANGED <<sessVars, chatStreamVars, hookVars>>

\* the rest of s.send: WriteMessage and the deferred unlock; the handler
\* returns and run() loops (src/client_compat.go:446-464)
RLSendWriteThenReturn ==
    /\ rlPc = "writing"
    /\ SocketWrite(rlPending)
    /\ rlWritten' = Append(rlWritten, rlPending)
    /\ rlPending' = Nil
    /\ sendMu' = "free"
    /\ rlPc' = "closing"
    /\ UNCHANGED <<started, rstream, rOpened, rSent, rInbox, rStreamEnd, fwdPc, fwdPending,
                   fwdLast, fwdSpawned, sockState, frames, hctx, rCalls, rEmitted,
                   rLog, rReleased>>
    /\ UNCHANGED connVars
    /\ UNCHANGED <<sessVars, chatStreamVars, hookVars>>

RLSendWrite ==
    /\ rlPc = "writing"
    /\ SocketWrite(rlPending)
    /\ rlWritten' = Append(rlWritten, rlPending)
    /\ rlPending' = Nil
    /\ sendMu' = "free"
    /\ rlPc' = "read"
    /\ UNCHANGED <<started, rstream, rOpened, rSent, rInbox, rStreamEnd, fwdPc, fwdPending,
                   fwdLast, fwdSpawned, sockState, frames, hctx, rCalls, rEmitted,
                   rLog, rReleased>>
    /\ UNCHANGED connVars
    /\ UNCHANGED <<sessVars, chatStreamVars, hookVars>>

\* s.conn.ReadMessage() fails, the peer having closed the socket or the
\* network having dropped it: run() returns (src/client_compat.go:225-231)
RLReadFail ==
    /\ rlPc = "read"
    /\ rlPc' = "closing"
    /\ UNCHANGED <<rlPending, started, rstream, rOpened, rSent, rInbox, rStreamEnd, fwdPc,
                   fwdPending, fwdLast, fwdSpawned, sendMu, sockOut, sockState, frames, hctx,
                   rlWritten, rCalls, rEmitted,
                   rLog, rReleased>>
    /\ UNCHANGED connVars
    /\ UNCHANGED <<sessVars, chatStreamVars, hookVars>>

\* defer conn.Close() of the HTTP handler (src/client_compat.go:200)
HandlerClose ==
    /\ rlPc = "closing"
    /\ sockState' = "closed"
    /\ rlPc' = "exited"
    /\ UNCHANGED <<rlPending, started, rstream, rOpened, rSent, rInbox, rStreamEnd, fwdPc,
                   fwdPending, fwdLast, fwdSpawned, sendMu, sockOut, frames, hctx, rlWritten,
                   rCalls, rEmitted,
                   rLog, rReleased>>
    /\ UNCHANGED connVars
    /\ UNCHANGED <<sessVars, chatStreamVars, hookVars>>

\* s.stream.Recv() returns an event; the socket message is built and s.send
\* is entered (src/client_compat.go:387-438)
FwdRecvEventStopsOnError ==
    /\ fwdPc = "recv"
    /\ rInbox # <<>>
    /\ fwdPending' = Forward(Head(rInbox))
    /\ fwdLast' = (Head(rInbox).kind \in {"error", "aborted"})
    /\ rInbox' = Tail(rInbox)
    /\ fwdPc' = "send_lock"
    /\ UNCHANGED <<rlPc, rlPending, started, rstream, rOpened, rSent, rStreamEnd, fwdSpawned,
                   sendMu, sockOut, sockState, frames, hctx, rlWritten, rCalls, rEmitted,
                   rLog, rReleased>>
    /\ UNCHANGED connVars
    /\ UNCHANGED <<sessVars, chatStreamVars, hookVars>>

FwdRecvEvent ==
    /\ fwdPc = "recv"
    /\ rInbox # <<>>
    /\ fwdPending' = Forward(Head(rInbox))
    /\ fwdLast' = FALSE
    /\ rInbox' = Tail(rInbox)
    /\ fwdPc' = "send_lock"
    /\ UNCHANGED <<rlPc, rlPending, started, rstream, rOpened, rSent, rStreamEnd, fwdSpawned,
                   sendMu, sockOut, sockState, frames, hctx, rlWritten, rCalls, rEmitted,
                   rLog, rReleased>>
    /\ UNCHANGED connVars
    /\ UNCHANGED <<sessVars, chatStreamVars, hookVars>>

\* s.stream.Recv() returns io.EOF (src/client_compat.go:388-390)
FwdRecvEOF ==
    /\ fwdPc = "recv"
    /\ rInbox = <<>>
    /\ rStreamEnd = "eof"
    /\ fwdPc' = "exited"
    /\ UNCHANGED <<rlPc, rlPending, started, rstream, rOpened, rSent, rInbox, rStreamEnd,
                   fwdPending, fwdLast, fwdSpawned, sendMu, sockOut, sockState, frames, hctx,
                   rlWritten, rCalls, rEmitted,
                   rLog, rReleased>>
    /\ UNCHANGED connVars
    /\ UNCHANGED <<sessVars, chatStreamVars, hookVars>>

\* s.stream.Recv() returns another error (src/client_compat.go:391-394)
FwdRecvErrKeepsGoing ==
    /\ fwdPc = "recv"
    /\ rInbox = <<>>
    /\ rStreamEnd = "err"
    /\ fwdPending' = WsError("stream_error", TransportErr, FALSE)
    /\ fwdLast' = FALSE
    /\ fwdPc' = "send_lock"
    /\ UNCHANGED <<rlPc, rlPending, started, rstream, rOpened, rSent, rInbox, rStreamEnd,
                   fwdSpawned, sendMu, sockOut, sockState, frames, hctx, rlWritten, rCalls,
                   rEmitted,
                   rLog, rReleased>>
    /\ UNCHANGED connVars
    /\ UNCHANGED <<sessVars, chatStreamVars, hookVars>>

FwdRecvErr ==
    /\ fwdPc = "recv"
    /\ rInbox = <<>>
    /\ rStreamEnd = "err"
    /\ fwdPending' = WsError("stream_error", TransportErr, FALSE)
    /\ fwdLast' = TRUE
    /\ fwdPc' = "send_lock"
    /\ UNCHANGED <<rlPc, rlPending, started, rstream, rOpened, rSent, rInbox, rStreamEnd,
                   fwdSpawned, sendMu, sockOut, sockState, frames, hctx, rlWritten, rCalls,
                   rEmitted,
                   rLog, rReleased>>
    /\ UNCHANGED connVars
    /\ UNCHANGED <<sessVars, chatStreamVars, hookVars>>

\* s.sendMu.Lock() in s.send, called by the forwarding goroutine
FwdSendLockNoMutex ==
    /\ fwdPc = "send_lock"
    /\ sendMu' = "fwd"
    /\ fwdPc' = "writing"
    /\ UNCHANGED <<rlPc, rlPending, started, rstream, rOpened, rSent, rInbox, rStreamEnd,
                   fwdPending, fwdLast, fwdSpawned, sockOut, sockState, frames, hctx,
                   rlWritten, rCalls, rEmitted,
                   rLog, rReleased>>
    /\ UNCHANGED connVars
    /\ UNCHANGED <<sessVars, chatStreamVars, hookVars>>

FwdSendLock ==
    /\ fwdPc = "send_lock"
    /\ sendMu = "free"
    /\ sendMu' = "fwd"
    /\ fwdPc' = "writing"
    /\ UNCHANGED <<rlPc, rlPending, started, rstream, rOpened, rSent, rInbox, rStreamEnd,
                   fwdPending, fwdLast, fwdSpawned, sockOut, sockState, frames, hctx,
                   rlWritten, rCalls, rEmitted,
                   rLog, rReleased>>
    /\ UNCHANGED connVars
    /\ UNCHANGED <<sessVars, chatStreamVars, hookVars>>

\* the rest of s.send for the forwarding goroutine, which then loops or,
\* after stream_error, returns
FwdSendWrite ==
    /\ fwdPc = "writing"
    /\ SocketWrite(fwdPending)
    /\ fwdPending' = Nil
    /\ fwdLast' = FALSE
    /\ sendMu' = "free"
    /\ fwdPc' = IF fwdLast THEN "exited" ELSE "recv"
    /\ UNCHANGED <<rlPc, rlPending, started, rstream, rOpened, rSent, rInbox, rStreamEnd,
                   fwdSpawned, sockState, frames, hctx, rlWritten, rCalls, rEmitted,
                   rLog, rReleased>>
    /\ UNCHANGED connVars
    /\ UNCHANGED <<sessVars, chatStreamVars, hookVars>>

\* the backend emits an event on the session's stream
RBackendEmit ==
    /\ rstream # 0
    /\ rStreamEnd = "open"
    /\ rEmitted < MaxRelayEvents
    /\ \E ev \in RelayEvents :
        /\ rInbox' = Append(rInbox, ev)
        /\ rLog' = Append(rLog, ev)
    /\ rEmitted' = rEmitted + 1
    /\ UNCHANGED <<rlPc, rlPending, started, rstream, rOpened, rSent, rStreamEnd, fwdPc,
                   fwdPending, fwdLast, fwdSpawned, sendMu, sockOut, sockState, frames, hctx,
                   rlWritten, rCalls, rReleased>>
    /\ UNCHANGED connVars
    /\ UNCHANGED <<sessVars, chatStreamVars, hookVars>>

\* the backend ends the stream
RBackendEnd ==
    /\ rstream # 0
    /\ rStreamEnd = "open"
    /\ rStreamEnd' = "eof"
    /\ UNCHANGED <<rlPc, rlPending, started, rstream, rOpened, rSent, rInbox, fwdPc,
                   fwdPending, fwdLast, fwdSpawned, sendMu, sockOut, sockState, frames, hctx,
                   rlWritten, rCalls, rEmitted,
                   rLog, rReleased>>
    /\ UNCHANGED connVars
    /\ UNCHANGED <<sessVars, chatStreamVars, hookVars>>

\* the stream breaks
RBackendFail ==
    /\ rstream # 0
    /\ rStreamEnd = "open"
    /\ rStreamEnd' = "err"
    /\ UNCHANGED <<rlPc, rlPending, started, rstream, rOpened, rSent, rInbox, fwdPc,
                   fwdPending, fwdLast, fwdSpawned, sendMu, sockOut, sockState, frames, hctx,
                   rlWritten, rCalls, rEmitted,
                   rLog, rReleased>>
    /\ UNCHANGED connVars
    /\ UNCHANGED <<sessVars, chatStreamVars, hookVars>>

\* the stream opened with a context that outlives the request
RequestCtxNeverDone ==
    /\ rlPc = "exited"
    /\ rstream # 0
    /\ rStreamEnd = "open"
    /\ FALSE
    /\ UNCHANGED vars

\* the stream was opened with the request's context (s.ctx = r.Context(),
\* src/client_compat.go:204, 274), which net/http cancels once the handler
\* has returned: the stream breaks and Recv returns an error
RequestCtxDone ==
    /\ rlPc = "exited"
    /\ rstream # 0
    /\ rStreamEnd = "open"
    /\ rStreamEnd' = "err"
    /\ UNCHANGED <<rlPc, rlPending, started, rstream, rOpened, rSent, rInbox, fwdPc,
                   fwdPending, fwdLast, fwdSpawned, sendMu, sockOut, sockState, frames, hctx,
                   rlWritten, rCalls, rEmitted, rLog, rReleased>>
    /\ UNCHANGED connVars
    /\ UNCHANGED <<sessVars, chatStreamVars, hookVars>>

\* a relay session over a client built with an explicit backend address
InitRelay ==
    /\ SessionInit
    /\ ConnFixed
    /\ RelayIdle
    /\ ChatStreamIdle
    /\ HookIdle

NextRelay ==
    \/ RLRead
    \/ ConnLock(0)
    \/ ConnCheck(0)
    \/ ConnDial(0)
    \/ ConnUnlock(0)
    \/ RLStartStream
    \/ RLSendLock
    \/ RLSendWrite
    \/ RLReadFail
    \/ HandlerClose
    \/ FwdRecvEvent
    \/ FwdRecvEOF
    \/ FwdRecvErr
    \/ FwdSendLock
    \/ FwdSendWrite
    \/ RBackendEmit
    \/ RBackendEnd
    \/ RBackendFail
    \/ RequestCtxDone

SpecRelay == InitRelay /\ [][NextRelay]_vars

\* the relay over sessions of at most MaxFairFrames inbound frames
NextRelayFair == NextRelay /\ frames' <= MaxFairFrames

\* the handler's deferred close runs once run() has returned, the request's
\* context is then cancelled, and the forwarding goroutine, once started, is
\* scheduled as long as it can take a step
SpecRelayFair ==
    /\ InitRelay
    /\ [][NextRelayFair]_vars
    /\ WF_vars(HandlerClose)
    /\ WF_vars(RequestCtxDone)
    /\ WF_vars(FwdRecvEvent)
    /\ WF_vars(FwdRecvEOF)
    /\ WF_vars(FwdRecvErr)
    /\ WF_vars(FwdSendLock)
    /\ WF_vars(FwdSendWrite)

\* ------------------------------------------------- LLMClient.ChatStream
MaxMsgs == 3

\* ChatMessage values a caller may pass
ChatMessages == [Role : {"user", "assistant"}, Content : {"x", "y"}]

MsgLists == UNION { [1..n -> ChatMessages] : n \in 0..MaxMsgs }

ErrNoMessages == <<"at least one message is required">>
ErrLastNotUser == <<"last message must be from user">>

\* the ChatRequest that ChatStream hands to NewChatSession (src/llm.go:727-732):
\* the literal sets four fields, Messages keeps its zero value
SessionRequest(req) ==
    [Messages |-> <<>>, SystemPrompt |-> req.SystemPrompt, Model |-> req.Model,
     MaxTokens |-> req.MaxTokens, Temperature |-> req.Temperature]

\* the start envelope NewChatSession builds from its request (src/llm.go:597-618)
StartEnvelope(req) ==
    [type |-> "start", SystemPrompt |-> req.SystemPrompt, Model |-> req.Model,
     MaxTokens |-> req.MaxTokens, Temperature |-> req.Temperature,
     Messages |-> [i \in DOMAIN req.Messages |->
                      [Role |-> req.Messages[i].Role, Content |-> req.Messages[i].Content]]]

\* the user message envelope of Send (src/llm.go:639-645)
UserMessage(content) == [type |-> "message", Content |-> content]

\* a goroutine calls client.ChatStream(ctx, req, callback)
CallChatStream ==
    /\ csPc = "idle"
    /\ \E sp \in {"", "be brief"}, msgs \in MsgLists : csReq' = ChatStreamRequest(sp, msgs)
    /\ csPc' = "new_session"
    /\ UNCHANGED <<csWire, csStreams, csSession, csErr>>
    /\ UNCHANGED <<sessVars, connVars, relayVars, hookVars>>

\* session, err := c.NewChatSession(ctx, ChatRequest{...}); on an error return it
\* (src/llm.go:727-735, 587-627); defer session.Close() is registered on success
CsNewSession ==
    /\ csPc = "new_session"
    /\ \E out \in {"connect_failed", "stream_failed", "start_failed", "ok"} :
        CASE out = "connect_failed" ->
                /\ csErr' = ErrDial
                /\ csPc' = "returned"
                /\ UNCHANGED <<csWire, csStreams, csSession>>
          [] out = "stream_failed" ->
                /\ csErr' = ErrOpenStream
                /\ csPc' = "returned"
                /\ UNCHANGED <<csWire, csStreams, csSession>>
          [] out = "start_failed" ->
                /\ csStreams' = csStreams + 1
                /\ csErr' = ErrStart
                /\ csPc' = "returned"
                /\ UNCHANGED <<csWire, csSession>>
          [] out = "ok" ->
                /\ csStreams' = csStreams + 1
                /\ csWire' = Append(csWire, StartEnvelope(SessionRequest(csReq)))
                /\ csSession' = "open"
                /\ csPc' = "validate"
                /\ UNCHANGED csErr
    /\ UNCHANGED csReq
    /\ UNCHANGED <<sessVars, connVars, relayVars, hookVars>>

\* the two tests on req.Messages (src/llm.go:738-748)
CsValidateReturnsDirectly ==
    /\ csPc = "validate"
    /\ IF Len(csReq.Messages) = 0
       THEN /\ csErr' = ErrNoMessages
            /\ csPc' = "returned"
       ELSE IF csReq.Messages[Len(csReq.Messages)].Role # "user"
       THEN /\ csErr' = ErrLastNotUser
            /\ csPc' = "returned"
       ELSE /\ csPc' = "send"
            /\ UNCHANGED csErr
    /\ UNCHANGED <<csReq, csWire, csStreams, csSession>>
    /\ UNCHANGED <<sessVars, connVars, relayVars, hookVars>>

CsValidate ==
    /\ csPc = "validate"
    /\ IF Len(csReq.Messages) = 0
       THEN /\ csErr' = ErrNoMessages
            /\ csPc' = "close"
       ELSE IF csReq.Messages[Len(csReq.Messages)].Role # "user"
       THEN /\ csErr' = ErrLastNotUser
            /\ csPc' = "close"
       ELSE /\ csPc' = "send"
            /\ UNCHANGED csErr
    /\ UNCHANGED <<csReq, csWire, csStreams, csSession>>
    /\ UNCHANGED <<sessVars, connVars, relayVars, hookVars>>

\* return session.Send(ctx, lastMsg.Content, callback): the user message goes
\* out (src/llm.go:750, 639-648)
CsSend ==
    /\ csPc = "send"
    /\ \E ok \in BOOLEAN :
        IF ok
        THEN /\ csWire' = Append(csWire, UserMessage(csReq.Messages[Len(csReq.Messages)].Content))
             /\ csPc' = "recv"
             /\ UNCHANGED csErr
        ELSE /\ csErr' = ErrSendFailed
             /\ csPc' = "close"
             /\ UNCHANGED csWire
    /\ UNCHANGED <<csReq, csStreams, csSession>>
    /\ UNCHANGED <<sessVars, connVars, relayVars, hookVars>>

\* Send's receive loop ends with a response or with one of its errors
\* (src/llm.go:654-698)
CsRecv ==
    /\ csPc = "recv"
    /\ \E e \in {NoErr, ErrRecvFailed, CallbackErr} : csErr' = e
    /\ csPc' = "close"
    /\ UNCHANGED <<csReq, csWire, csStreams, csSession>>
    /\ UNCHANGED <<sessVars, connVars, relayVars, hookVars>>

\* the deferred session.Close() runs, then ChatStream returns (src/llm.go:736, 716-722)
CsDeferredClose ==
    /\ csPc = "close"
    /\ csSession' = "closed"
    /\ csPc' = "returned"
    /\ UNCHANGED <<csReq, csWire, csStreams, csErr>>
    /\ UNCHANGED <<sessVars, connVars, relayVars, hookVars>>

InitStream ==
    /\ SessionInit
    /\ ConnFixed
    /\ RelayIdle
    /\ ChatStreamIdle
    /\ HookIdle

NextStream ==
    \/ CallChatStream
    \/ CsNewSession
    \/ CsValidate
    \/ CsSend
    \/ CsRecv
    \/ CsDeferredClose

SpecStream == InitStream /\ [][NextStream]_vars

\* ------------------------------------------------ Stripe webhook handler
MaxWebhooks == 2
MaxParts == 3

\* Strings are sequences of symbols. A keyed hash is the sequence naming its
\* key and its input (distinct inputs or keys give distinct hashes), and its
\* hex encoding is marked as such.
Hmac(secret, data) == <<"hmac", secret>> \o data

Hex(bytes) == <<"hex">> \o bytes

\* timestamp + "." + string(payload) (src/handlers.go:589)
SignedPayload(timestamp, payload) == timestamp \o <<".", payload>>

\* strings.SplitN(part, "=", 2) (src/handlers.go:573)
SplitKV(part) ==
    IF \E i \in DOMAIN part : part[i] = "="
    THEN LET i == CHOOSE j \in DOMAIN part :
                    /\ part[j] = "="
                    /\ \A k \in 1..(j - 1) : part[k] # "="
         IN  <<SubSeq(part, 1, i - 1), SubSeq(part, i + 1, Len(part))>>
    ELSE <<part>>

\* the loop over the header's comma-separated parts (src/handlers.go:571-583):
\* a later t or v1 replaces an earlier one
RECURSIVE ParseSignature(_, _)
ParseSignature(parts, acc) ==
    IF parts = <<>> THEN acc
    ELSE LET kv == SplitKV(Head(parts))
         IN  IF Len(kv) # 2 THEN ParseSignature(Tail(parts), acc)
             ELSE IF kv[1] = <<"t">>
                  THEN ParseSignature(Tail(parts), [acc EXCEPT !.timestamp = kv[2]])
             ELSE IF kv[1] = <<"v1">>
                  THEN ParseSignature(Tail(parts), [acc EXCEPT !.sig = kv[2]])
             ELSE ParseSignature(Tail(parts), acc)

\* verifyStripeSignature (src/handlers.go:564-595); the header is given as its
\* comma-separated parts, the empty header as no parts
VerifyStripeSignatureNoCompare(payload, signature, secret) ==
    IF signature = <<>> THEN FALSE
    ELSE LET p == ParseSignature(signature, [timestamp |-> <<>>, sig |-> <<>>])
         IN  ~(p.timestamp = <<>> \/ p.sig = <<>>)

VerifyStripeSignature(payload, signature, secret) ==
    IF signature = <<>> THEN FALSE
    ELSE LET p == ParseSignature(signature, [timestamp |-> <<>>, sig |-> <<>>])
         IN  IF p.timestamp = <<>> \/ p.sig = <<>> THEN FALSE
             ELSE Hex(Hmac(secret, SignedPayload(p.timestamp, payload))) = p.sig

WebhookSecret == "whsec"

\* header parts a sender may put together
HeaderParts ==
    { <<"t", "=", t>> : t \in {"1", "2"} }
        \cup { <<"t", "=">>, <<"junk">>, <<"v1", "=", "zz">> }
        \cup { <<"v1", "=">> \o Hex(Hmac(k, SignedPayload(<<t>>, b))) :
                 k \in {WebhookSecret, "guess"}, t \in {"1", "2"}, b \in {"p", "q"} }

HookRequests ==
    [method : {"POST", "GET"}, readable : BOOLEAN, body : {"p", "q"},
     header : UNION { [1..n -> HeaderParts] : n \in 0..MaxParts }]

\* a request arrives at the handler
WhRequest ==
    /\ whPc = "idle"
    /\ whCalls < MaxWebhooks
    /\ whCalls' = whCalls + 1
    /\ \E r \in HookRequests : whReq' = r
    /\ whPc' = "handle"
    /\ UNCHANGED <<whSecret, whStatus, whForwarded>>
    /\ UNCHANGED <<sessVars, connVars, relayVars, chatStreamVars>>

\* method test, body read and signature verification (src/handlers.go:486-503)
WhHandle ==
    /\ whPc = "handle"
    /\ IF whReq.method # "POST"
       THEN whStatus' = 405 /\ whPc' = "done"
       ELSE IF ~whReq.readable
       THEN whStatus' = 400 /\ whPc' = "done"
       ELSE IF whSecret # "" /\ ~VerifyStripeSignature(whReq.body, whReq.header, whSecret)
       THEN whStatus' = 401 /\ whPc' = "done"
       ELSE whPc' = "forward" /\ UNCHANGED whStatus
    /\ UNCHANGED <<whSecret, whReq, whForwarded, whCalls>>
    /\ UNCHANGED <<sessVars, connVars, relayVars, chatStreamVars>>

\* c.ForwardStripeWebhook(ctx, body, signature header) and the reply
\* (src/handlers.go:505-515)
WhForward ==
    /\ whPc = "forward"
    /\ whForwarded' = Append(whForwarded, [payload |-> whReq.body, signature |-> whReq.header])
    /\ \E ok \in BOOLEAN : whStatus' = IF ok THEN 200 ELSE 500
    /\ whPc' = "done"
    /\ UNCHANGED <<whSecret, whReq, whCalls>>
    /\ UNCHANGED <<sessVars, connVars, relayVars, chatStreamVars>>

\* the handler returns; the next request is a new one
WhReturn ==
    /\ whPc = "done"
    /\ whPc' = "idle"
    /\ whReq' = NoHookRequest
    /\ whStatus' = 0
    /\ whForwarded' = <<>>
    /\ UNCHANGED <<whSecret, whCalls>>
    /\ UNCHANGED <<sessVars, connVars, relayVars, chatStreamVars>>

\* the handler is built with or without a webhook secret
InitHook ==
    /\ SessionInit
    /\ ConnFixed
    /\ RelayIdle
    /\ ChatStreamIdle
    /\ whSecret \in {"", WebhookSecret}
    /\ whPc = "idle"
    /\ whReq = NoHookRequest
    /\ whStatus = 0
    /\ whForwarded = <<>>
    /\ whCalls = 0

NextHook ==
    \/ WhRequest
    \/ WhHandle
    \/ WhForward
    \/ WhReturn

SpecHook == InitHook /\ [][NextHook]_vars

\* ------------------------------------------------------------ properties
HasKind(log, k) == \E i \in DOMAIN log : log[i].kind = k

IsChunk(ev) == ev.kind = "chunk"

\* the chunks of a log, as the callback sees them
ChunksOf(log) ==
    LET cs == SelectSeq(log, IsChunk)
    IN  [i \in DOMAIN cs |-> [Content |-> cs[i].Content, Index |-> cs[i].Index]]

RECURSIVE ConcatContents(_)
ConcatContents(cs) ==
    IF cs = <<>> THEN <<>> ELSE Head(cs).Content \o ConcatContents(Tail(cs))

Contains(e, x) == \E i \in DOMAIN e : e[i] = x

ChunkA == [kind |-> "chunk", Content |-> <<"a">>, Index |-> 0]
ChunkB == [kind |-> "chunk", Content |-> <<"b">>, Index |-> 1]

InTurn == {"send_check", "send_msg", "send_recv", "send_unlock"}

\* C1: a Send issued after a Close has returned never calls into the stream
\* (neither Send nor Recv) and returns the "session is closed" error.
C1_SendAfterCloseFails ==
    \A p \in Procs :
        (op[p] = "Send" /\ afterClose[p]) =>
            /\ ~io[p]
            /\ pc[p] \notin {"send_msg", "send_recv"}
            /\ (pc[p] = "send_unlock" => result[p] = [resp |-> Nil, err |-> ErrClosed])

C1_Witness ==
    \E p \in Procs :
        op[p] = "Send" /\ afterClose[p] /\ pc[p] = "send_unlock" /\ result[p].err = ErrClosed

\* C2: an Abort called while a Send is in flight transmits its abort-turn
\* message while that Send is still in flight (it does not wait for the Send
\* to return).
C2_AbortSentDuringTurn ==
    \A p \in Procs :
        (op[p] = "Abort" /\ pc[p] = "abort_unlock" /\ abortCtx[p].duringTurn)
            => abortCtx[p].sentInTurn

\* C3: a Send that recorded a completion leaves its receive loop only on
\* end-of-stream, having consumed everything the backend emitted before it.
C3_CompletionThenEOF ==
    \A p \in Procs :
        (op[p] = "Send" /\ pc[p] = "send_unlock" /\ result[p].err = NoErr
            /\ HasKind(evlog[p], "completion"))
            => (exit[p] = "eof" /\ streamEnd = "eof" /\ inbox = <<>>)

\* C4: an Abort issued after a Close has returned never calls into the stream
\* and returns an error.
C4_AbortAfterCloseFails ==
    \A p \in Procs :
        (op[p] = "Abort" /\ afterClose[p]) =>
            /\ ~io[p]
            /\ (pc[p] = "abort_unlock" => result[p].err # NoErr)

\* C5: at most one Send is between acquiring the turn lock and returning, and
\* it is the one holding the lock: a second Send's user message is transmitted
\* only after the first has returned.
C5_OneTurnInFlight ==
    /\ Cardinality({p \in Procs : op[p] = "Send" /\ pc[p] \in InTurn}) <= 1
    /\ \A p \in Procs : (op[p] = "Send" /\ pc[p] \in InTurn) => mu = p

C5_Witness ==
    \E p, q \in Procs :
        /\ p # q
        /\ pc[p] = "send_recv" /\ evlog[p] # <<>>
        /\ pc[q] = "send_lock"

C7_CompletionResponse ==
    \A p \in Procs : \A i \in DOMAIN evlog[p] :
        (evlog[p][i].kind = "completion" /\ pc[p] = "send_unlock") =>
            LET c == evlog[p][i]
            IN  /\ result[p].err = NoErr
                /\ result[p].resp.Content = c.FullContent
                /\ result[p].resp.StopReason = c.StopReason
                /\ result[p].resp.InputTokens = c.InputTokens
                /\ result[p].resp.OutputTokens = c.OutputTokens
                /\ result[p].resp.CostUSD = c.CostUsd
                /\ result[p].resp.LatencyMs = c.LatencyMs
                /\ (cb[p] = "fn" => cbLog[p] = ChunksOf(evlog[p]))

C7_Witness ==
    \E p \in Procs :
        /\ pc[p] = "send_unlock"
        /\ cb[p] = "fn"
        /\ Len(evlog[p]) = 3
        /\ evlog[p][1] = ChunkA /\ evlog[p][2] = ChunkB
        /\ evlog[p][3].kind = "completion"
        /\ Len(cbLog[p]) = 2
        /\ result[p].resp.Content = <<"z">>

\* C8: a Send whose stream ended with no completion seen returns, without
\* error, the concatenation of the received chunk contents in arrival order and
\* zero values in every other field.
C8_EOFWithoutCompletion ==
    \A p \in Procs :
        (op[p] = "Send" /\ pc[p] = "send_unlock" /\ exit[p] = "eof"
            /\ ~HasKind(evlog[p], "completion")) =>
            /\ result[p].err = NoErr
            /\ result[p].resp =
                 [kind |-> "response", Content |-> ConcatContents(ChunksOf(evlog[p])),
                  Model |-> "", InputTokens |-> 0, OutputTokens |-> 0, CostUSD |-> 0,
                  LatencyMs |-> 0, StopReason |-> ""]

C8_Witness ==
    \E p \in Procs :
        /\ pc[p] = "send_unlock" /\ exit[p] = "eof"
        /\ evlog[p] = <<ChunkA, ChunkB>>
        /\ result[p].resp.Content = <<"a", "b">>

\* C9: once the callback has failed for a chunk, the Send has left its loop at
\* that chunk, has called the callback for no later chunk, and returns the
\* callback's error and no response.
C9_CallbackFailureStops ==
    \A p \in Procs :
        cbFailedAt[p] # 0 =>
            /\ pc[p] = "send_unlock"
            /\ Len(evlog[p]) = cbFailedAt[p]
            /\ cbLog[p] = ChunksOf(evlog[p])
            /\ result[p] = [resp |-> Nil, err |-> CallbackErr]

C9_Witness ==
    \E p \in Procs :
        /\ cbFailedAt[p] = 2
        /\ Len(cbLog[p]) = 2
        /\ result[p].err = CallbackErr
        /\ inbox # <<>>

\* C10: a backend abort event ends the Send at that event with the error
\* "generation aborted: <reason>" and no response, whatever was accumulated.
C10_AbortedTerminates ==
    \A p \in Procs : \A i \in DOMAIN evlog[p] :
        evlog[p][i].kind = "aborted" =>
            /\ i = Len(evlog[p])
            /\ pc[p] = "send_unlock"
            /\ result[p] = [resp |-> Nil,
                            err |-> <<"generation aborted: ", evlog[p][i].Reason>>]

C10_Witness ==
    \E p \in Procs :
        /\ pc[p] = "send_unlock"
        /\ Len(evlog[p]) = 2
        /\ evlog[p][1].kind = "chunk"
        /\ evlog[p][2].kind = "aborted"
        /\ loc[p].fullContent # <<>>
        /\ result[p].resp = Nil


\* C12: the closed flag is one-way: once true it stays true, and it changes
\* only in the body of Close.
C12_ClosedOneWay ==
    [][ /\ (done => done')
        /\ (done' # done => \E p \in Procs : op[p] = "Close" /\ pc[p] = "close_body") ]_vars

C12_Witness ==
    /\ done
    /\ \E p \in Procs :
        afterClose[p] /\ pc[p] \in {"send_unlock", "abort_unlock", "close_unlock"}

\* C13: only the first Close closes the stream's send side: CloseSend is
\* called at most once on a session's stream.
C13_CloseSendOnce == closeSends <= 1

\* ------------------------------------------------- connector properties
Connected(p) == cframe[p].made \/ cframe[p].sawConn

Starts(log) == {i \in DOMAIN log : log[i] = "start"}

\* C11: on every stream opened by NewChatSession the start envelope is the
\* first message and is sent once; user messages go only on streams whose
\* session was returned; a session is returned exactly when connect, the stream
\* open and the start send all succeeded, each on a stream of its own.
C11_StartFirst ==
    /\ \A st \in DOMAIN streamLog :
        /\ streamLog[st] # <<>> => streamLog[st][1] = "start"
        /\ Cardinality(Starts(streamLog[st])) <= 1
        /\ st \in handed => streamLog[st] # <<>>
    /\ \A p \in ConnProcs :
        (cop[p] = "NewChatSession" /\ cpc[p] = "ret") =>
            /\ (cres[p] = NoErr <=> cframe[p].stream \in handed)
            /\ (cres[p] = NoErr => Connected(p))
    /\ \A p, q \in ConnProcs :
        (p # q /\ cframe[p].stream # 0) => cframe[p].stream # cframe[q].stream

C11_Witness ==
    \E p \in ConnProcs :
        /\ cop[p] = "NewChatSession" /\ cpc[p] = "ret" /\ cres[p] = NoErr
        /\ streamLog[cframe[p].stream] = <<"start", "message">>

\* C14: with no Close called, at most one connection is ever created, and a
\* connect() that did not create it returns success without a lookup or a dial.
C14_OneConnection ==
    closeCalls = 0 =>
        /\ created <= 1
        /\ \A p \in ConnProcs :
            (cpc[p] = "conn_unlock" /\ created = 1 /\ ~cframe[p].made) =>
                /\ cres[p] = NoErr
                /\ ~cframe[p].dialed
                /\ ~cframe[p].looked

C14_Witness ==
    /\ closeCalls = 0
    /\ \E p, q \in ConnProcs :
        /\ p # q
        /\ cpc[p] = "conn_unlock" /\ cframe[p].sawConn
        /\ cpc[q] = "conn_lock"
        /\ created = 1

\* C15: Close leaves the client without a connection, never closes a
\* connection twice, returns no error when there was nothing to close, and no
\* created connection is dropped unclosed.
C15_CloseIdempotent ==
    /\ ~doubleClosed
    /\ closedConns \cup (IF conn # 0 THEN {conn} ELSE {}) = 1..created
    /\ \A p \in ConnProcs :
        cpc[p] = "cclose_unlock" =>
            /\ conn = 0 /\ client = 0
            /\ (~cframe[p].sawConn => cres[p] = NoErr)

C15_Witness ==
    \E p \in ConnProcs :
        /\ cpc[p] = "cclose_unlock"
        /\ ~cframe[p].sawConn
        /\ closedConns # {}

\* C16: with an explicit address no lookup is ever made; otherwise at most one
\* lookup succeeds with "available", its address is cached, and from then on
\* no connect() sends a lookup again.
C16_LookupOnce ==
    /\ [](/\ (explicitCfg => lookups = 0)
          /\ goodLookups <= 1
          /\ (goodLookups = 1 => grpcAddr = "discovered"))
    /\ [][goodLookups >= 1 => lookups' = lookups]_vars

C16_Witness ==
    /\ ~explicitCfg
    /\ goodLookups = 1 /\ lookups = 1
    /\ closedConns # {}
    /\ conn # 0

\* C17: a connect() whose lookup failed or reported unavailable returns an
\* error without dialing; one whose dial failed returns an error; a failed
\* connect() leaves no connection cached, so that a later connect() tries again.
C17_ConnectFailures ==
    \A p \in ConnProcs :
        cpc[p] = "conn_unlock" =>
            /\ (cres[p] # NoErr => conn = 0 /\ client = 0)
            /\ (cframe[p].lookupBad => cres[p] # NoErr /\ ~cframe[p].dialed)
            /\ ((cframe[p].dialed /\ ~cframe[p].made) => cres[p] = ErrDial)

C17_Witness ==
    /\ lookups >= 2
    /\ goodLookups = 1
    /\ \E p \in ConnProcs : cpc[p] = "conn_unlock" /\ cframe[p].made

\* C18: a Chat call issues at most one request; when it returns it has issued
\* one exactly if its connect succeeded, and an error it returns after a
\* successful connect is that single request's failure.
C18_ChatOneRequest ==
    \A p \in ConnProcs :
        cop[p] = "Chat" =>
            /\ cframe[p].sent <= 1
            /\ (cpc[p] = "ret" =>
                    /\ (cframe[p].sent = 1 <=> Connected(p))
                    /\ ((Connected(p) /\ cres[p] # NoErr) => cres[p] = ErrChat)
                    /\ (~Connected(p) => cres[p] # NoErr /\ cres[p] # ErrChat))

C18_Witness ==
    \E p \in ConnProcs :
        /\ cop[p] = "Chat" /\ cpc[p] = "ret"
        /\ cframe[p].sent = 1
        /\ cres[p] = ErrChat

\* ---------------------------------------------------- relay properties
\* what the read loop has answered, or is answering, to the frame in hand
Replies ==
    rlWritten \o (IF rlPc \in {"send_lock", "writing"} THEN <<rlPending>> ELSE <<>>)

ErrNotStarted == WsError("not_started", "Session not started", FALSE)
ErrAlreadyStarted == WsError("already_started", "Session already started", FALSE)

\* C19: a message or tool_result frame read while no start has succeeded is
\* answered by exactly one error message with code not_started, and the read
\* loop makes no backend call for it: no connect, no stream opened, nothing
\* sent on a stream.
C19_NotStartedRejected ==
    (hctx.frame.type \in {"message", "tool_result"} /\ ~hctx.started) =>
        /\ Replies = <<ErrNotStarted>>
        /\ rCalls = hctx.calls
        /\ cpc[0] = "idle"
        /\ rOpened = hctx.opened
        /\ (rstream # 0 => Len(rSent[rstream]) = hctx.sent)

\* a tool_result frame before any start was answered on the socket
C19_Witness ==
    /\ hctx.frame.type = "tool_result"
    /\ ~hctx.started
    /\ rlPc = "read"
    /\ rlWritten = <<ErrNotStarted>>
    /\ sockOut # <<>>
    /\ sockOut[Len(sockOut)] = ErrNotStarted

\* C20: a start frame read after a start succeeded is answered by one
\* non-retryable already_started error and changes nothing: same stream, still
\* started, no stream opened, no forwarding goroutine started, no backend
\* call; and a message frame read while started goes out on that same stream
\* (or, the stream being down, is answered send_failed).
C20_SecondStartRejected ==
    /\ (hctx.frame.type = "start" /\ hctx.started) =>
        /\ Replies = <<ErrAlreadyStarted>>
        /\ ~ErrAlreadyStarted.retryable
        /\ started
        /\ rstream = hctx.stream
        /\ rOpened = hctx.opened
        /\ fwdSpawned = hctx.spawned
        /\ rCalls = hctx.calls
        /\ cpc[0] = "idle"
    /\ (hctx.frame = [type |-> "message", ok |-> TRUE] /\ hctx.started) =>
        /\ started
        /\ rstream = hctx.stream
        /\ \/ /\ Replies = <<>>
              /\ Len(rSent[rstream]) = hctx.sent + 1
              /\ rSent[rstream][hctx.sent + 1] = [kind |-> "message"]
           \/ /\ Replies = <<WsError("send_failed", TransportErr, TRUE)>>
              /\ Len(rSent[rstream]) = hctx.sent

\* start, start, message: the second start was refused on the socket and the
\* message went out on the stream of the first
C20_Witness ==
    /\ hctx.frame = [type |-> "message", ok |-> TRUE]
    /\ hctx.started
    /\ rOpened = 1
    /\ rstream = 1
    /\ fwdSpawned = 1
    /\ rSent[1] = <<[kind |-> "start"], [kind |-> "message"]>>
    /\ \E i \in DOMAIN sockOut : sockOut[i] = ErrAlreadyStarted

\* the read loop is done with the frame in hand
FrameHandled == rlPc \in {"read", "closing", "exited"}

\* the session's own state is as the frame in hand found it
SessionAsFound ==
    /\ started = hctx.started
    /\ rstream = hctx.stream
    /\ rOpened = hctx.opened
    /\ fwdSpawned = hctx.spawned

\* C21: an abort frame read while not started is dropped: handling is over at
\* once, nothing is answered, no backend call is made and the session is as
\* it was.  Read while started it makes one send on the session's stream, an
\* abort request whose reason is empty when the payload does not decode
\* (nothing arrives when the stream is down), and answers nothing either.
C21_AbortHandling ==
    /\ (hctx.frame.type = "abort" /\ ~hctx.started) =>
        /\ FrameHandled
        /\ Replies = <<>>
        /\ rCalls = hctx.calls
        /\ cpc[0] = "idle"
        /\ SessionAsFound
        /\ (rstream # 0 => Len(rSent[rstream]) = hctx.sent)
    /\ (hctx.frame.type = "abort" /\ hctx.started) =>
        /\ FrameHandled
        /\ Replies = <<>>
        /\ rCalls = hctx.calls + 1
        /\ SessionAsFound
        /\ \/ Len(rSent[rstream]) = hctx.sent
           \/ /\ Len(rSent[rstream]) = hctx.sent + 1
              /\ rSent[rstream][hctx.sent + 1] =
                    [kind |-> "abort", reason |-> IF hctx.frame.ok THEN "stop" ELSE ""]

\* an abort with a malformed payload, read after start, went out with an
\* empty reason; before it an abort read before start left no trace
C21_Witness ==
    /\ hctx.frame = [type |-> "abort", ok |-> FALSE]
    /\ hctx.started
    /\ frames = 3
    /\ sockOut = <<>>
    /\ rSent[rstream] = <<[kind |-> "start"], [kind |-> "abort", reason |-> ""]>>

ErrInvalidJSON == WsError("invalid_json", "Invalid JSON message", FALSE)
ErrUnknownType == WsError("unknown_type", "Unknown message type", FALSE)

\* nothing went to the backend for the frame in hand
NoBackendCall ==
    /\ rCalls = hctx.calls
    /\ cpc[0] = "idle"
    /\ (rstream # 0 => Len(rSent[rstream]) = hctx.sent)

\* C22: a frame whose envelope does not decode is answered by exactly one
\* invalid_json error, a frame of an unknown type by exactly one unknown_type
\* error; neither reaches the backend nor changes started or the stream.
C22_BadFrames ==
    /\ hctx.frame.type = "bad_json" =>
        (Replies = <<ErrInvalidJSON>> /\ NoBackendCall /\ SessionAsFound)
    /\ hctx.frame.type = "unknown" =>
        (Replies = <<ErrUnknownType>> /\ NoBackendCall /\ SessionAsFound)

\* both kinds of frame were answered on the socket of a started session
C22_Witness ==
    /\ hctx.frame.type = "unknown"
    /\ hctx.started
    /\ rlPc = "read"
    /\ sockOut = <<ErrInvalidJSON, ErrUnknownType>>

RelayErrorCodes ==
    {"invalid_json", "unknown_type", "not_started", "already_started", "invalid_data",
     "connection_failed", "stream_failed", "start_failed", "send_failed"}

\* C23: every answer of the read loop is one of the relay errors, and having
\* written it the read loop is back at reading the socket, which is still
\* open; the read loop leaves only from a read of the socket that failed, never
\* from a handler or from a reply.
C23_ErrorsNonFatal ==
    /\ [][(rlPc = "writing" /\ rlPc' # "writing") =>
            /\ rlPending.code \in RelayErrorCodes
            /\ rlPc' = "read"
            /\ sockState' = "open"
            /\ frames' = frames]_vars
    /\ [][(rlPc' \in {"closing", "exited", "panicked"} /\ rlPc \notin {"closing", "exited"}) =>
            /\ rlPc = "read"
            /\ rlPc' = "closing"
            /\ frames' = frames
            /\ sockOut' = sockOut]_vars

\* a failed start and a failed send were both answered, and the read loop is
\* reading again
C23_Witness ==
    /\ rlPc = "read"
    /\ frames = 3
    /\ \E i, j \in DOMAIN sockOut :
        /\ i < j
        /\ sockOut[i] = WsError("stream_failed", TransportErr, TRUE)
        /\ sockOut[j] = WsError("send_failed", TransportErr, TRUE)

\* C24: the read loop and the forwarding goroutine are never both between
\* s.sendMu.Lock() and the unlock of s.send, where the socket is written;
\* whichever is there holds sendMu.
C24_WritesExclusive ==
    /\ ~(rlPc = "writing" /\ fwdPc = "writing")
    /\ (rlPc = "writing" => sendMu = "rl")
    /\ (fwdPc = "writing" => sendMu = "fwd")

\* the read loop is writing an error reply while the forwarding goroutine,
\* holding a backend event, waits for the lock
C24_Witness ==
    /\ rlPc = "writing"
    /\ fwdPc = "send_lock"
    /\ sendMu = "rl"

\* C25: at most one forwarding goroutine is ever started, and it exists
\* exactly when a start was fully processed (the start request is the first
\* request on the session's stream and started is set); events leave the
\* stream only through the forwarding goroutine's Recv.
C25_OneStreamReader ==
    /\ [](/\ fwdSpawned <= 1
          /\ (fwdSpawned = 1) = started
          /\ (fwdSpawned = 0) = (fwdPc = "none")
          /\ started => (rstream # 0 /\ rSent[rstream] # <<>>
                         /\ rSent[rstream][1] = [kind |-> "start"]))
    /\ [][Len(rInbox') < Len(rInbox) => (fwdPc = "recv" /\ fwdPc' = "send_lock")]_vars

\* a start that failed at sending, a start that succeeded and a start that was
\* refused: one forwarding goroutine
C25_Witness ==
    /\ fwdSpawned = 1
    /\ rOpened = 2
    /\ frames = 3
    /\ sockOut = <<WsError("start_failed", TransportErr, TRUE), ErrAlreadyStarted>>

\* the socket messages that stand for backend events
Forwards == { Forward(ev) : ev \in RelayEvents }

IsForward(m) == m \in Forwards

\* the forwarded backend events on the socket, in socket order
FwdWritten == SelectSeq(sockOut, IsForward)

\* events the forwarding goroutine has received
Received == Len(rLog) - Len(rInbox)

\* 1 when the forwarding goroutine holds an event it has not written yet
FwdHeld == IF fwdPc \in {"send_lock", "writing"} /\ ~fwdLast THEN 1 ELSE 0

\* the socket message type that stands for each kind of backend event
WsTypeFor(kind) ==
    CASE kind = "session_started" -> "started"
      [] kind = "chunk" -> "chunk"
      [] kind = "tool_call" -> "tool_call"
      [] kind = "completion" -> "completion"
      [] kind \in {"error", "aborted"} -> "error"

\* C26: the forwarded messages on the socket are, one for one and in order,
\* the events received from the backend (all of them but the one being
\* written while the socket is open, a prefix of them once the handler closed
\* it), each of the type that stands for its kind, an aborted event as an error
\* with code aborted; and the forwarding goroutine is gone only when the
\* stream has ended or broken and nothing is left to receive.
C26_ForwardsInOrder ==
    /\ Len(FwdWritten) <= Received - FwdHeld
    /\ sockState = "open" => Len(FwdWritten) = Received - FwdHeld
    /\ \A i \in 1..Len(FwdWritten) :
        /\ FwdWritten[i] = Forward(rLog[i])
        /\ FwdWritten[i].type = WsTypeFor(rLog[i].kind)
        /\ rLog[i].kind = "aborted" => FwdWritten[i].code = "aborted"
    /\ FwdHeld = 1 => fwdPending = Forward(rLog[Received])
    /\ fwdPc = "exited" => (rInbox = <<>> /\ rStreamEnd \in {"eof", "err"})

\* an error event and then a chunk were both forwarded, in that order, and
\* the forwarding goroutine is receiving again
C26_Witness ==
    /\ Len(rLog) = 2
    /\ rLog[1].kind = "error"
    /\ rLog[2].kind = "chunk"
    /\ fwdPc = "recv"
    /\ sockOut = <<Forward(rLog[1]), Forward(rLog[2])>>

ErrStreamError == WsError("stream_error", TransportErr, FALSE)

IsStreamError(m) == m = ErrStreamError

\* C27: the forwarding goroutine is gone after end-of-stream with no
\* stream_error written, and after a receive error with exactly one (none
\* when the handler had closed the socket by then); stream_error is on the
\* socket at most once, only once the forwarding goroutine is gone, and no
\* forwarded event follows it.
C27_ForwarderExit ==
    /\ Len(SelectSeq(sockOut, IsStreamError)) <= 1
    /\ \A i \in DOMAIN sockOut :
        sockOut[i] = ErrStreamError =>
            /\ fwdPc = "exited"
            /\ rStreamEnd = "err"
            /\ \A j \in DOMAIN sockOut : j > i => ~IsForward(sockOut[j])
    /\ fwdPc = "exited" =>
        /\ rStreamEnd \in {"eof", "err"}
        /\ rStreamEnd = "eof" => SelectSeq(sockOut, IsStreamError) = <<>>
        /\ (rStreamEnd = "err" /\ sockState = "open") =>
                SelectSeq(sockOut, IsStreamError) = <<ErrStreamError>>

\* a forwarded event, then the stream broke: one stream_error, goroutine gone
C27_Witness ==
    /\ fwdPc = "exited"
    /\ Len(sockOut) = 2
    /\ IsForward(sockOut[1])
    /\ sockOut[2] = ErrStreamError

ErrInvalidStart == WsError("invalid_data", "Invalid start request", FALSE)

\* C28: a start frame read while not started is never refused as
\* already_started.  While it connects nothing is answered; when it succeeds
\* the session is started with its one forwarding goroutine; when it fails
\* the session stays not started with no forwarding goroutine and exactly one
\* error is answered: non-retryable invalid_data for a malformed payload
\* (and no backend call), else a retryable connection_failed, stream_failed
\* or start_failed.
C28_StartFailures ==
    (hctx.frame.type = "start" /\ ~hctx.started) =>
        \/ /\ rlPc = "start_conn"
           /\ hctx.frame.ok
           /\ Replies = <<>>
           /\ ~started /\ fwdSpawned = 0
        \/ /\ FrameHandled
           /\ hctx.frame.ok
           /\ Replies = <<>>
           /\ started /\ fwdSpawned = 1
        \/ /\ ~started /\ fwdSpawned = 0 /\ fwdPc = "none"
           /\ Len(Replies) = 1
           /\ IF hctx.frame.ok
              THEN /\ Replies[1].code \in {"connection_failed", "stream_failed", "start_failed"}
                   /\ Replies[1].retryable
              ELSE /\ Replies = <<ErrInvalidStart>>
                   /\ NoBackendCall

\* the connection failed, then the start request could not be sent, then a
\* third start was accepted
C28_Witness ==
    /\ hctx.frame = [type |-> "start", ok |-> TRUE]
    /\ ~hctx.started
    /\ started
    /\ frames = 3
    /\ sockOut = <<WsError("connection_failed", ErrDial, TRUE),
                   WsError("start_failed", TransportErr, TRUE)>>

\* C29: the socket is closed by the handler only after the read loop has
\* left; and once the read loop has left on a failed read, the handler closes
\* the socket and the forwarding goroutine, if there is one, comes to its end.
C29_CloseEndsBothTasks ==
    /\ [](sockState = "closed" => rlPc = "exited")
    /\ (rlPc = "closing") ~> (rlPc = "exited" /\ sockState = "closed"
                               /\ fwdPc \in {"none", "exited"})

\* the forwarding goroutine outlived the socket (an event it received was
\* not delivered) and then came to its end on the broken stream
C29_Witness ==
    /\ sockState = "closed"
    /\ rlPc = "exited"
    /\ fwdPc = "exited"
    /\ rStreamEnd = "err"
    /\ Len(FwdWritten) < Received

\* C30: when the relay session has ended (the read loop has left and the
\* handler has closed the socket) the send side of every backend stream the
\* session opened has been closed.
C30_StreamReleasedAtEnd ==
    (rlPc = "exited" /\ sockState = "closed") =>
        \A st \in 1..rOpened : st \in rReleased

\* C31: the chunks a Send has handed to its callback are exactly the chunks it
\* has received so far, in the order received and each once, whatever their
\* index fields say; without a callback nothing is delivered.
C31_ChunksInArrivalOrder ==
    \A p \in Procs :
        cbLog[p] = (IF cb[p] = "fn" THEN ChunksOf(evlog[p]) ELSE <<>>)

\* indices arrive repeated and decreasing and are delivered all the same
C31_Witness ==
    \E p \in Procs :
        /\ cb[p] = "fn"
        /\ evlog[p] = <<ChunkB, ChunkB, ChunkA>>
        /\ cbLog[p] = <<[Content |-> <<"b">>, Index |-> 1], [Content |-> <<"b">>, Index |-> 1],
                        [Content |-> <<"a">>, Index |-> 0]>>

\* C35: turn isolation: no Send receives an event that an earlier turn's Send
\* had left unread on the stream when it returned.
C35_TurnIsolation ==
    [][\A p \in Procs : Len(evlog'[p]) > Len(evlog[p]) => unread = 0]_vars

C36_ClientNeverNil ==
    \A p \in ConnProcs : cpc[p] # "panicked"

\* C37: conn and client are both set or both unset, the connections created
\* and not yet closed are exactly the cached one, and none is closed twice.
C37_ConnAccounting ==
    /\ (conn = 0) = (client = 0)
    /\ conn # 0 => client = conn
    /\ created - Cardinality(closedConns) = (IF conn # 0 THEN 1 ELSE 0)
    /\ ~doubleClosed

\* a connection was closed and a later connect() cached a new one
C37_Witness ==
    /\ conn = 2 /\ client = 2
    /\ closedConns = {1}
    /\ created = 2

\* C38: the relay session has opened at most one backend stream, and holds a
\* stream handle only while it is started.
C38_AtMostOneStream ==
    /\ rOpened <= 1
    /\ ~started => rstream = 0

\* C39: a task that performs a socket write does so while the socket is open:
\* neither the read loop nor the forwarder writes after the handler closed it.
C39_NoWriteAfterClose ==
    [][((fwdPc = "writing" /\ fwdPc' # "writing") \/ (rlPc = "writing" /\ rlPc' # "writing"))
            => sockState = "open"]_vars

IsUserTurn(m) == m.type = "message"

\* whether ChatStream's message list passes its two tests
ValidList(msgs) == msgs # <<>> /\ msgs[Len(msgs)].Role = "user"

\* C34: when ChatStream has returned: for a list ending in a user message, the
\* start envelope carried the messages before the last one and the only turn
\* sent is the last message's content; for an empty list or one not ending in
\* a user message, ChatStream returned an error and sent no turn.
C34_ContextThenTurn ==
    csPc = "returned" =>
        LET msgs == csReq.Messages
            turns == SelectSeq(csWire, IsUserTurn)
        IN  /\ (ValidList(msgs) /\ csSession # "none") =>
                /\ csWire[1].type = "start"
                /\ csWire[1].Messages = SubSeq(msgs, 1, Len(msgs) - 1)
                /\ turns \in {<<>>, <<UserMessage(msgs[Len(msgs)].Content)>>}
            /\ ~ValidList(msgs) => (csErr # NoErr /\ turns = <<>>)

\* C40: when ChatStream has returned, the session it opened, if any, is closed;
\* when NewChatSession failed there never was one.
C40_SessionClosedOnReturn ==
    /\ csPc = "returned" => csSession # "open"
    /\ csSession = "open" => csPc \in {"validate", "send", "recv", "close"}
    /\ (csPc = "returned" /\ csErr \in {ErrDial, ErrOpenStream, ErrStart}) => csSession = "none"

\* returned on the second validation failure, with the session closed
C40_Witness ==
    /\ csPc = "returned"
    /\ csErr = ErrLastNotUser
    /\ csSession = "closed"
    /\ Len(csReq.Messages) = 2

\* the values a header gives for key k
ValuesOf(header, k) ==
    { SplitKV(header[i])[2] : i \in { j \in DOMAIN header :
            Len(SplitKV(header[j])) = 2 /\ SplitKV(header[j])[1] = <<k>> } } \ {<<>>}

\* a header that is missing, lacks a t or a v1 element, or none of whose v1
\* values is the keyed hash, under the secret, of one of its t values and the payload
BadSignature(header, payload, secret) ==
    \/ header = <<>>
    \/ ValuesOf(header, "t") = {}
    \/ ValuesOf(header, "v1") = {}
    \/ \A t \in ValuesOf(header, "t"), v \in ValuesOf(header, "v1") :
            v # Hex(Hmac(secret, SignedPayload(t, payload)))

\* C32: with a webhook secret configured, a POST whose signature header is
\* missing, incomplete or not matching is never forwarded and is answered 401;
\* a request that is not a POST is never forwarded.
C32_VerifiedBeforeForward ==
    /\ (whSecret # "" /\ whReq.method = "POST" /\ whReq.readable
            /\ BadSignature(whReq.header, whReq.body, whSecret)) =>
                /\ whForwarded = <<>>
                /\ whPc # "forward"
                /\ whPc = "done" => whStatus = 401
    /\ whReq.method # "POST" => (whForwarded = <<>> /\ whPc # "forward")

\* a signature made for payload "p" arrives with payload "q"
C32_Witness ==
    /\ whSecret = WebhookSecret
    /\ whPc = "done"
    /\ whReq.method = "POST" /\ whReq.readable
    /\ whReq.body = "q"
    /\ whReq.header = << <<"t", "=", "1">>,
                         <<"v1", "=">> \o Hex(Hmac(WebhookSecret, SignedPayload(<<"1">>, "p"))) >>
    /\ whStatus = 401
    /\ whForwarded = <<>>

====
